---- MODULE Spec2Model ----
(***************************************************************************)
(* Vela: the onboarding approval workflow of one guild.                    *)
(*                                                                         *)
(* The bot runs on one asyncio event loop, so the code between two awaits  *)
(* of a handler is one atomic step.  Every handler is modelled as a        *)
(* process whose steps are those blocks: a step is "the pending await      *)
(* returns (with an outcome) and the code runs on to the next await".      *)
(*   - OnboardingView.onboard_button, DynamicOnboardingModal.on_submit     *)
(*   - OnboardingApprovalView.approve_button / deny_button                 *)
(*   - SyncTask.trigger_manual_run / sync_guild / _sync_message            *)
(*   - a restart of the bot process (VelaBot.setup_hook)                   *)
(* The store (members, audit log) is the database; msgs is the history of  *)
(* the approval channel.  Guild settings and Role rows belong to the web    *)
(* panel, which may change them at any time: a handler reads them afresh   *)
(* and may find any value; the approver roles stay as they are.  Of a      *)
(* click handler that has returned only its answer is kept.  All messages  *)
(* lie inside the sweep's lookback window and below its history limit.     *)
(***************************************************************************)
EXTENDS Integers, Sequences, FiniteSets, TLC

(* ---------------------------------------------------------------- bounds *)
MaxSubmits == 2     \* form submissions in a behaviour
MaxClicks == 2      \* button clicks in a behaviour
MaxSweeps == 2      \* sweep passes in a behaviour
MaxRestarts == 1    \* restarts of the bot process
MaxMsgs == 2        \* approval requests posted before the clicks begin
MaxCycles == 2      \* iterations of the background task's loop
MaxStarts == 2      \* calls of SyncTask.start that start a task
MaxOnboards == 1     \* /onboard commands that reach complete_onboarding
MaxResets == 1       \* resets of a member from the dashboard
MaxLog == 4          \* audit entries after which no further handler starts
MaxOtherMsgs == 1   \* request messages in the other guild's channel
MaxRemoves == 1     \* /remove commands that delete a member's row

(* ------------------------------------------------------------ the actors *)
Members == {1, 2}                 \* user ids of the applicants
Actors == {101, 102}              \* user ids of the people who click
RoleApprover == 10                \* a role id registered as onboarding_approver
RoleOther == 20
RoleElsewhere == 30               \* the approver role of another guild

\* interaction.user.roles of each clicking actor.
UserRoles(a) ==
  CASE a = 101 -> {RoleApprover, RoleOther}
    [] OTHER -> {RoleOther}

NoUser == 0                       \* Python's None for a user id
NoGuild == 0                      \* Python's None for a guild id
NoNick == ""                      \* a nickname that is None or empty (falsy)
Nicknames == {NoNick, "Ada Lovelace"}

(* ------------------------------------------------------- embeds, titles *)
\* Embed titles as word sequences; "x in title" is a search for a run of words.
TitleRequest == <<"CLIPBOARD", "Onboarding", "Approval", "Request">>
TitleApproved == <<"CHECK", "Onboarding", "Request", "Approved">>
TitleDenied == <<"CROSS", "Onboarding", "Request", "Denied">>

\* Python's `pat in title` on the word level.
Contains(title, pat) ==
  \E i \in 0..(Len(title) - Len(pat)) :
    \A j \in 1..Len(pat) : title[i + j] = pat[j]

\* sync_guild: "Onboarding Approval Request" in (embed.title or "")
IsRequestTitle(title) == Contains(title, <<"Onboarding", "Approval", "Request">>)

\* _update_approved_message: the message already shows the approved status
ShowsApproved(title) == Contains(title, <<"CHECK">>) \/ Contains(title, <<"Approved">>)

\* _update_denied_message: the message already shows the denied status
ShowsDenied(title) == Contains(title, <<"CROSS">>) \/ Contains(title, <<"Denied">>)

\* Values of the "Approved By" / "Denied By" fields.
Mention(a) == [k |-> "mention", a |-> a]          \* interaction.user.mention
UserName(a) == [k |-> "name", a |-> a]            \* a discord_username
SystemSync == [k |-> "system", a |-> NoUser]      \* "System (sync)"

\* A JSON value of an audit entry's details: Python keeps int and str apart.
IntVal(n) == [t |-> "int", v |-> n]
StrVal(n) == [t |-> "str", v |-> n]               \* str(n)
NoVal == [t |-> "none", v |-> 0]

(* ---------------------------------------------------------------- state *)
VARIABLES
  members,    \* the members table: user id -> row
  audit,      \* the audit_logs table, in insertion order
  msgs,       \* the approval channel's messages, oldest first (id = index)
  form,       \* user id -> the onboarding modal is open on the user's client
  subs,       \* user id -> the user's on_submit handler
  clicks,     \* the approve/deny handlers in flight, in the order they began
  reply,      \* how the last handler to answer its actor answered
  nclicks,    \* button clicks so far
  approvers,  \* the role ids of the Role rows of type "onboarding_approver"
  pview,      \* user_id cached on the persistent OnboardingApprovalView
  pguild,     \* guild_id cached on the persistent OnboardingApprovalView
  manual,     \* a trigger_manual_run for the other guild: its locals
  sweep,      \* the sweep pass (SyncTask.trigger_manual_run)
  stats,      \* SyncTask.stats
  submits,    \* form submissions so far
  sweeps,     \* sweep passes started so far
  restarts,   \* restarts so far
  loop,       \* the background task of SyncTask (start, _run_loop, stop)
  nickform,   \* one onboarding form: its template, its fields, the nickname
  cmds,       \* each member's /onboard command: where its handler is
  guilds,     \* the Guild rows: is_active and the sync settings
  phase       \* history: how the running sweep pass relates to the one before

vars == <<members, audit, msgs, form, subs, clicks, reply, nclicks, approvers,
          pview, pguild, manual, sweep, stats, submits, sweeps, restarts, loop, nickform, cmds,
          guilds, phase>>

\* Guild.settings with the Role rows of the guild, as one read finds them.
SettingsSet ==
  [ mode : {"manual", "auto"},            \* onboarding_approval_mode
    set_nickname : BOOLEAN,
    auto_role : BOOLEAN,
    onboarded_role : BOOLEAN,             \* a Role row of type "onboarded" exists
    prevent_reonboarding : BOOLEAN ]

\* What .get(key, default) and an empty Role table give (the filler of the
\* settings a handler does not read).
DefaultSettings ==
  [mode |-> "auto", set_nickname |-> TRUE, auto_role |-> TRUE,
   onboarded_role |-> FALSE, prevent_reonboarding |-> TRUE]

\* onboard_button reads prevent_reonboarding.
ButtonReads ==
  {[DefaultSettings EXCEPT !.prevent_reonboarding = b] : b \in BOOLEAN}

\* on_submit reads the mode and, in auto mode, set_nickname, auto_role and
\* the onboarded role.
SubmitReads ==
  {[DefaultSettings EXCEPT !.mode = "manual"]} \cup
  {[DefaultSettings EXCEPT !.set_nickname = s.set_nickname,
                           !.auto_role = s.auto_role,
                           !.onboarded_role = s.onboarded_role] : s \in SettingsSet}

\* approve_button reads set_nickname, auto_role and the onboarded role.
ClickReads ==
  {[DefaultSettings EXCEPT !.mode = "manual",
                           !.set_nickname = s.set_nickname,
                           !.auto_role = s.auto_role,
                           !.onboarded_role = s.onboarded_role] : s \in SettingsSet}

\* The answer an actor gets: the ephemeral message, or the edited message.
Reply(a, text, i) == [to |-> a, text |-> text, msg |-> i]

NoReply == Reply(NoUser, "none", 0)

NoRecord ==
  [exists |-> FALSE, rows |-> 0, status |-> 0, completed |-> FALSE,
   nickname |-> NoNick]

NoSub ==
  [pc |-> "none", cfg |-> DefaultSettings, nick |-> NoNick, tried |-> <<>>,
   posted |-> FALSE]

ZeroStats == [checked |-> 0, updated |-> 0, errors |-> 0]

NoEmbed == [title |-> <<>>, by |-> <<>>]

\* stale and edited are history: the messages that were stale when the pass
\* read the channel, and the messages the pass has rewritten.
IdleSweep ==
  [pc |-> "idle", queue |-> <<>>, new |-> NoEmbed, info |-> SystemSync,
   before |-> ZeroStats, result |-> ZeroStats, stale |-> {}, edited |-> {}]

\* SyncTask.__init__
SyncTaskInit == ZeroStats

\* No trigger_manual_run for the other guild has been called.  own (history):
\* what this run itself has counted.
NoManual ==
  [pc |-> "idle", before |-> ZeroStats, left |-> 0, own |-> ZeroStats,
   result |-> ZeroStats]

\* The communities (Guild rows): Home is the one whose approval channel is
\* msgs, Other is another active community.
Home == 1
Other == 2
Guilds == {Home, Other}

\* The orders in which one read of the Guild table can return the active
\* communities that have sync_enabled.
GuildOrders == {<<>>, <<Home>>, <<Other>>, <<Home, Other>>, <<Other, Home>>}

Range(seq) == {seq[k] : k \in 1..Len(seq)}

\* settings.get("sync_interval_minutes", 15): the interval of a community
\* that has none configured, in minutes.
DefaultInterval == 15

\* The interval configured for the other community.
OtherInterval == 30

\* _run_loop line 69: the sleep while no community has sync enabled, and
\* line 76: the sleep after an error, in minutes.
DisabledSleep == 5
RetrySleep == 1

\* settings has no "onboarding_fields" key.
NoFields == [set |-> FALSE, list |-> <<>>]

\* The Guild rows a run can find: active or not, sync_enabled not set (the
\* default), false or true.
GuildRows ==
  { r \in [Guilds -> [active : BOOLEAN, sync_enabled : {"unset", "off", "on"},
                      interval : {DefaultInterval, OtherInterval},
                      fields : {NoFields}]] :
      r[Home].interval = DefaultInterval /\ r[Other].interval = OtherInterval }

\* No community has a sync setting.
SyncOff ==
  [g \in Guilds |->
     [active |-> TRUE, sync_enabled |-> "unset",
      interval |-> IF g = Home THEN DefaultInterval ELSE OtherInterval,
      fields |-> NoFields]]

\* Every community, whatever its settings.
EnabledGuildsAll == Guilds

\* select(Guild).where(Guild.is_active) and the test of sync_enabled
\* (lines 81-84, 91-94 and 104-108).
EnabledGuilds ==
  {g \in Guilds : guilds[g].active /\ guilds[g].sync_enabled = "on"}

\* _get_interval: the interval of the first community that has sync
\* enabled, for a read that returned them in this order.
GetInterval(order) ==
  IF order = <<>> THEN DefaultInterval ELSE guilds[Head(order)].interval

\* SyncTask.__init__: running False, task None.  order, swept and failed
\* are history: the communities of the running cycle, those whose sync_guild
\* was called and those whose history read failed (logger.error).
NoLoop ==
  [running |-> FALSE, pc |-> "off", todo |-> <<>>, order |-> <<>>,
   swept |-> {}, failed |-> {}, cycles |-> 0, starts |-> 0, delay |-> 0]

(* --------------------------------------------------------- the nickname *)
\* Text is a sequence of characters.  Discord's limit of a display name.
NickLimit == 32

FirstName == <<"f", "i", "r", "s", "t", "_", "n", "a", "m", "e">>
LastName == <<"l", "a", "s", "t", "_", "n", "a", "m", "e">>
Email == <<"e", "m", "a", "i", "l">>

\* f"{{{field_name}}}"
Placeholder(name) == <<"{">> \o name \o <<"}">>

\* Python's str.replace(old, new) for a non-empty old: the occurrences of
\* old are replaced from left to right, without overlap.
RECURSIVE StrReplace(_, _, _)
StrReplace(str, old, new) ==
  IF Len(str) < Len(old) THEN str
  ELSE IF SubSeq(str, 1, Len(old)) = old
       THEN new \o StrReplace(SubSeq(str, Len(old) + 1, Len(str)), old, new)
       ELSE <<Head(str)>> \o StrReplace(Tail(str), old, new)

\* A slice that cuts nothing.
TruncateNot(str) == str

\* Python's str[:32]
Truncate(str) ==
  SubSeq(str, 1, IF Len(str) < NickLimit THEN Len(str) ELSE NickLimit)

\* on_submit lines 84-85: the for loop over field_values, from field k on.
RECURSIVE FillTemplate(_, _, _, _)
FillTemplate(nick, names, values, k) ==
  IF k > Len(names) THEN nick
  ELSE FillTemplate(StrReplace(nick, Placeholder(names[k]), values[k]),
                    names, values, k + 1)

\* field_values.get(name, "")
FieldValue(names, values, name) ==
  IF \E k \in 1..Len(names) : names[k] = name
  THEN values[CHOOSE k \in 1..Len(names) : names[k] = name]
  ELSE <<>>

\* on_submit lines 81-100: the nickname of a submission.
ComputeNickname(template, names, values, username) ==
  IF template # <<>>
  THEN Truncate(FillTemplate(template, names, values, 1))
  ELSE LET first_name == FieldValue(names, values, FirstName)
           last_name == FieldValue(names, values, LastName)
       IN IF first_name # <<>> /\ last_name # <<>>
          THEN Truncate(first_name \o <<" ">> \o last_name)
          ELSE IF names # <<>> THEN Truncate(values[1]) ELSE username

\* No form is open.  display is the display name the approval sets.
NoNickForm ==
  [pc |-> "none", template |-> <<>>, names |-> <<>>, values |-> <<>>,
   nickname |-> <<>>, display |-> <<>>]

\* No /onboard command is running.
NoCmds == [m \in Members |-> "idle"]

Init ==
  /\ members = [m \in Members |-> NoRecord]
  /\ audit = <<>>
  /\ msgs = <<>>
  /\ form = [m \in Members |-> FALSE]
  /\ subs = [m \in Members |-> NoSub]
  /\ clicks = <<>>
  /\ reply = NoReply
  /\ approvers \in {{}, {RoleApprover}}
  /\ loop = NoLoop
  /\ cmds = NoCmds
  /\ guilds = SyncOff
  /\ nickform = NoNickForm
  /\ nclicks = 0
  /\ pview = NoUser
  /\ pguild = NoGuild
  /\ manual = NoManual
  /\ sweep = IdleSweep
  /\ stats = SyncTaskInit
  /\ submits = 0
  /\ sweeps = 0
  /\ restarts = 0
  /\ phase = "noisy"

AuditEntry(action, user, name, uid, by, msg) ==
  [action |-> action, user |-> user, name |-> name, uid |-> uid, by |-> by,
   msg |-> msg]

(* ------------------------------------------------------- the submission *)
\* A button that opens the form for everyone.
RefusedNever(m, s) == FALSE

\* onboard_button line 420: the test that keeps the form closed.
Refused(m, s) ==
  s.prevent_reonboarding /\ members[m].exists /\ members[m].status > 0

\* OnboardingView.onboard_button: the form opens unless the member is
\* already onboarded and prevent_reonboarding is set.
OnboardButton(m, s) ==
  /\ ~form[m]
  /\ submits < MaxSubmits
  /\ ~Refused(m, s)
  /\ form' = [form EXCEPT ![m] = TRUE]
  /\ phase' = "noisy"
  /\ UNCHANGED <<members, audit, msgs, subs, clicks, reply, nclicks, pview, sweep,
                 stats, submits, sweeps, restarts, approvers, manual, pguild, guilds, cmds, nickform, loop>>

\* on_submit lines 290-297: the role is granted when auto_role is set and an
\* onboarded Role row exists.
WantsRole(s) == s.auto_role /\ s.onboarded_role

\* The first await of on_submit after its commits.
SubmitFirstStep(s) ==
  IF s.mode = "manual" THEN "post"
  ELSE IF s.set_nickname THEN "rename"
  ELSE IF WantsRole(s) THEN "role"
  ELSE "done"

\* A submission that is always stored as pending.
SubmitStatusPending(s) == 0

\* on_submit lines 152-163: the status the submission stores.
SubmitStatus(s) == IF s.mode = "manual" THEN 0 ELSE 1

\* on_submit lines 105-187: the member row is created or updated and
\* committed, then the audit entry.
SubmitCommit(m, nick, s) ==
  /\ members' = [members EXCEPT ![m] =
       [ exists |-> TRUE,
         rows |-> IF @.exists THEN @.rows ELSE 1,
         status |-> SubmitStatus(s),
         completed |-> IF s.mode = "manual" THEN @.completed ELSE TRUE,
         nickname |-> nick ]]
  /\ audit' = Append(audit,
       AuditEntry("onboarding_modal_completed", m, m, NoVal, UserName(m), 0))

\* on_submit has returned.
SubDone(sub, posted) ==
  [sub EXCEPT !.pc = "done", !.nick = NoNick, !.posted = posted]

\* DynamicOnboardingModal.on_submit up to its first await.
OnSubmit(m, nick, s) ==
  /\ form[m]
  /\ subs[m].pc \in {"none", "done"}
  /\ submits < MaxSubmits
  /\ submits' = submits + 1
  /\ form' = [form EXCEPT ![m] = FALSE]
  /\ SubmitCommit(m, nick, s)
  /\ subs' = [subs EXCEPT ![m] =
       IF SubmitFirstStep(s) = "done"
       THEN SubDone([NoSub EXCEPT !.cfg = s], FALSE)
       ELSE [ pc |-> SubmitFirstStep(s), cfg |-> s, nick |-> nick,
              tried |-> <<>>, posted |-> FALSE ]]
  /\ phase' = "noisy"
  /\ UNCHANGED <<msgs, clicks, reply, nclicks, pview, sweep, stats, sweeps, restarts, approvers, manual, pguild, guilds, cmds, nickform, loop>>

\* The approval request embed on_submit builds, with its view.
\* uid is the user the embed is about; field says how the "User ID" field
\* reads ("ok": str(user.id)) and mention that the description holds <@id>.
RequestMessage(m) ==
  [title |-> TitleRequest, uid |-> m, by |-> <<>>, controls |-> "enabled",
   own |-> TRUE, field |-> "ok", mention |-> TRUE,
   bot |-> TRUE, recent |-> TRUE, embeds |-> TRUE]

\* Manual mode: await channel.send(embed, view).  No message is posted when
\* no approval channel is configured or found, or the send fails.
SubmitPost(m, sent) ==
  /\ subs[m].pc = "post"
  /\ msgs' = IF sent THEN Append(msgs, RequestMessage(m)) ELSE msgs
  /\ subs' = [subs EXCEPT ![m] = SubDone(@, sent)]
  /\ phase' = "noisy"
  /\ UNCHANGED <<members, audit, form, clicks, reply, nclicks, pview, sweep,
                 stats, submits, sweeps, restarts, approvers, manual, pguild, guilds, cmds, nickform, loop>>

\* Auto mode: await interaction.user.edit(nick=nickname); any failure is logged.
SubmitRename(m) ==
  /\ subs[m].pc = "rename"
  /\ LET t == Append(subs[m].tried, "rename")
     IN subs' = [subs EXCEPT ![m] =
          IF WantsRole(@.cfg) THEN [@ EXCEPT !.tried = t, !.pc = "role"]
          ELSE SubDone([@ EXCEPT !.tried = t], FALSE)]
  /\ phase' = "noisy"
  /\ UNCHANGED <<members, audit, msgs, form, clicks, reply, nclicks, pview,
                 sweep, stats, submits, sweeps, restarts, approvers, manual, pguild, guilds, cmds, nickform, loop>>

\* Auto mode: guild.get_role, then await interaction.user.add_roles(role);
\* nothing is attempted when the guild no longer has the role.
SubmitRole(m, found) ==
  /\ subs[m].pc = "role"
  /\ subs' = [subs EXCEPT ![m] =
       SubDone([@ EXCEPT !.tried = IF found THEN Append(@, "role") ELSE @], FALSE)]
  /\ phase' = "noisy"
  /\ UNCHANGED <<members, audit, msgs, form, clicks, reply, nclicks, pview,
                 sweep, stats, submits, sweeps, restarts, approvers, manual, pguild, guilds, cmds, nickform, loop>>

(* ------------------------------------------------- the approval buttons *)
\* discord.py dispatches a click to the view instance sent with the message
\* while the process that sent it lives, else to the persistent view
\* registered in setup_hook.  Lines 603-613: a view without user_id takes
\* it from the clicked embed's "User ID" field and keeps it.
ResolveTarget(i) ==
  IF msgs[i].own THEN msgs[i].uid
  ELSE IF pview # NoUser THEN pview
  ELSE IF msgs[i].field = "ok" THEN msgs[i].uid ELSE NoUser

\* Line 610: int(field.value) raises ValueError on a "User ID" field that is
\* no number; no try encloses it.
ParseRaises(i) == ~msgs[i].own /\ pview = NoUser /\ msgs[i].field = "bad"

\* self.guild_id when the handler of a click on message i checks the
\* permission: the guild the view was built with, or the guild the
\* registered view has cached (lines 603-613: parsed only when user_id or
\* guild_id is unset).  The messages of the model are the Home guild's.
ViewGuild(i) ==
  IF msgs[i].own THEN Home
  ELSE IF pview # NoUser /\ pguild # NoGuild THEN pguild
  ELSE Home

\* The role ids of the Role rows of type "onboarding_approver" of a guild.
\* A role id belongs to one guild.
ApproverRoles(g) == IF g = Home THEN approvers ELSE {RoleElsewhere}

\* A permission check that lets everyone through.
EveryonePermitted(i, a) == TRUE

\* OnboardingApprovalView.check_approver_permission
CheckApproverPermission(i, a) ==
  IF ApproverRoles(ViewGuild(i)) = {} THEN FALSE
  ELSE \E r \in ApproverRoles(ViewGuild(i)) : r \in UserRoles(a)

\* approve_button lines 711-712: the role is granted when auto_role is set
\* and an onboarded Role row exists.
ApproveWantsRole(s) == s.auto_role /\ s.onboarded_role

\* The locals of a handler past its commit.
RunningClick(i, a, kind, target, s, first) ==
  [ msg |-> i, actor |-> a, kind |-> kind, target |-> target,
    snap |-> [title |-> msgs[i].title, by |-> msgs[i].by],  \* interaction.message
    nick |-> IF kind = "approve" /\ first = "rename"
             THEN members[target].nickname ELSE NoNick,     \* member_nickname
    role |-> kind = "approve" /\ first = "rename" /\ ApproveWantsRole(s),
    prev |-> members[target].status,     \* history: the status the click found
    tried |-> <<>>, pc |-> first ]

\* A click needs an enabled button on the message.
CanClick(i) ==
  /\ nclicks < MaxClicks
  /\ i \in 1..Len(msgs)
  /\ msgs[i].controls = "enabled"

\* approve_button, lines 694-712: the first side effect to await.
ApproveFirstStep(present, nick, s) ==
  IF ~present THEN "edit"
  ELSE IF s.set_nickname /\ nick # NoNick THEN "rename"
  ELSE IF ApproveWantsRole(s) THEN "role"
  ELSE "notify"

\* A commit that writes nothing.
ApproveCommitLost(target, a) == UNCHANGED <<members, audit>>

\* An approval that commits the row before the audit entry is added.
ApproveCommitStatusOnly(target, a) ==
  /\ members' = [members EXCEPT ![target].status = 1, ![target].completed = TRUE]
  /\ audit' = audit

\* approve_button lines 636-688: the write of the decision and its audit
\* entry, one commit.
ApproveCommit(target, a) ==
  /\ members' = [members EXCEPT ![target].status = 1, ![target].completed = TRUE]
  /\ audit' = Append(audit,
       AuditEntry("onboarding_approved", a, a, IntVal(target), UserName(a), 0))

\* A click that fails and yet leaves the decision in the member's row.
FailedClickHalfWritten(a, text, i) ==
  /\ reply' = Reply(a, text, i)
  /\ members' = [m \in Members |->
                   IF m = msgs[i].uid /\ members[m].exists
                   THEN [members[m] EXCEPT !.status = 1] ELSE members[m]]
  /\ UNCHANGED <<audit, clicks>>

\* approve_button lines 615-628, 645-649 and 752-756 (deny_button alike):
\* the handler answers its actor and returns; the session is closed without
\* a commit.
FailedClick(a, text, i) ==
  /\ reply' = Reply(a, text, i)
  /\ UNCHANGED <<members, audit, clicks>>

\* approve_button up to its first await.  commit: session.commit() succeeds;
\* present: guild.get_member finds the member.
ApproveButton(i, a, s, commit, present) ==
  /\ CanClick(i)
  /\ nclicks' = nclicks + 1
  /\ LET target == ResolveTarget(i)
     IN /\ pview' = IF msgs[i].own \/ ParseRaises(i) THEN pview ELSE target
        /\ pguild' = IF msgs[i].own \/ ParseRaises(i) \/ ViewGuild(i) # Home
                     THEN pguild ELSE Home
        /\ IF ParseRaises(i)
           THEN FailedClick(a, "crashed", i)
           ELSE IF target = NoUser
           THEN FailedClick(a, "no_user_info", i)
           ELSE IF ~CheckApproverPermission(i, a)
           THEN FailedClick(a, "permission_error", i)
           ELSE IF ~members[target].exists
           THEN FailedClick(a, "not_found", i)
           ELSE IF ~commit
           THEN FailedClick(a, "error_commit", i)
           ELSE /\ ApproveCommit(target, a)
                /\ reply' = reply
                /\ clicks' = Append(clicks,
                     RunningClick(i, a, "approve", target, s,
                       ApproveFirstStep(present, members[target].nickname, s)))
  /\ phase' = "noisy"
  /\ UNCHANGED <<msgs, form, subs, sweep, stats, submits, sweeps, restarts, approvers, manual, guilds, cmds, nickform, loop>>

\* A denial that stamps the row with a completion time.
DenyCommitStamps(target, a) ==
  /\ members' = [members EXCEPT ![target].status = -1, ![target].completed = TRUE]
  /\ audit' = Append(audit,
       AuditEntry("onboarding_denied", a, a, IntVal(target), UserName(a), 0))

\* deny_button lines 795-825
DenyCommit(target, a) ==
  /\ members' = [members EXCEPT ![target].status = -1]
  /\ audit' = Append(audit,
       AuditEntry("onboarding_denied", a, a, IntVal(target), UserName(a), 0))

\* deny_button up to its first await.
DenyButton(i, a, s, commit, present) ==
  /\ CanClick(i)
  /\ nclicks' = nclicks + 1
  /\ LET target == ResolveTarget(i)
     IN /\ pview' = IF msgs[i].own \/ ParseRaises(i) THEN pview ELSE target
        /\ pguild' = IF msgs[i].own \/ ParseRaises(i) \/ ViewGuild(i) # Home
                     THEN pguild ELSE Home
        /\ IF ParseRaises(i)
           THEN FailedClick(a, "crashed", i)
           ELSE IF target = NoUser
           THEN FailedClick(a, "no_user_info", i)
           ELSE IF ~CheckApproverPermission(i, a)
           THEN FailedClick(a, "permission_error", i)
           ELSE IF ~members[target].exists
           THEN FailedClick(a, "not_found", i)
           ELSE IF ~commit
           THEN FailedClick(a, "error_commit", i)
           ELSE /\ DenyCommit(target, a)
                /\ reply' = reply
                /\ clicks' = Append(clicks,
                     RunningClick(i, a, "deny", target, s,
                                  IF present THEN "notify" ELSE "edit"))
  /\ phase' = "noisy"
  /\ UNCHANGED <<msgs, form, subs, sweep, stats, submits, sweeps, restarts, approvers, manual, guilds, cmds, nickform, loop>>

ClickFrame ==
  /\ phase' = "noisy"
  /\ UNCHANGED <<members, audit, form, subs, pview, sweep, stats, submits,
                 nclicks, sweeps, restarts, approvers, manual, pguild, guilds, cmds, nickform, loop>>

Running(c) == c \in 1..Len(clicks)

\* The handlers in flight once handler c has returned.
Returned(c) ==
  [j \in 1..(Len(clicks) - 1) |-> IF j < c THEN clicks[j] ELSE clicks[j + 1]]

\* approve_button lines 696-709: await member.edit(nick=member_nickname).
\* Forbidden and every other exception are logged and the handler goes on.
ApproveRename(c, out) ==
  /\ Running(c) /\ clicks[c].pc = "rename"
  /\ out \in {"ok", "forbidden", "other"}
  /\ clicks' = [clicks EXCEPT
       ![c].tried = Append(@, [kind |-> "rename", arg |-> clicks[c].nick]),
       ![c].nick = NoNick,
       ![c].role = FALSE,
       ![c].pc = IF clicks[c].role THEN "role" ELSE "notify"]
  /\ UNCHANGED <<msgs, reply>>
  /\ ClickFrame

\* approve_button lines 712-719: guild.get_role, await member.add_roles(role).
\* A role the guild no longer has is skipped; any exception is logged.
ApproveRole(c, out) ==
  /\ Running(c) /\ clicks[c].pc = "role"
  /\ out \in {"missing", "ok", "other"}
  /\ clicks' = [clicks EXCEPT
       ![c].tried = IF out = "missing" THEN @
                    ELSE Append(@, [kind |-> "role", arg |-> NoNick]),
       ![c].pc = "notify"]
  /\ UNCHANGED <<msgs, reply>>
  /\ ClickFrame

\* Whether the except clause after await member.send(...) catches the
\* outcome: only discord.Forbidden and discord.HTTPException are caught
\* (lines 722-729, 832-840); any other exception reaches the handler's outer
\* except, which replies with the error and returns.
NotifyCaught(out) == out \in {"ok", "forbidden", "http"}

\* approve_button lines 721-729 and deny_button lines 831-840.
ClickNotify(c, out) ==
  /\ Running(c) /\ clicks[c].pc = "notify"
  /\ out \in {"ok", "forbidden", "http", "other"}
  /\ IF NotifyCaught(out)
     THEN /\ clicks' = [clicks EXCEPT
               ![c].tried = Append(@, [kind |-> "notify", arg |-> NoNick]),
               ![c].pc = "edit"]
          /\ reply' = reply
     ELSE /\ clicks' = Returned(c)
          /\ reply' = Reply(clicks[c].actor, "error_notify", clicks[c].msg)
  /\ UNCHANGED msgs
  /\ ClickFrame

\* A rewrite that keeps the title the click found on the message.
DecidedEmbedStale(c) ==
  [ title |-> c.snap.title,
    by |-> Append(c.snap.by,
                  [name |-> IF c.kind = "approve" THEN "Approved By" ELSE "Denied By",
                   value |-> Mention(c.actor)]) ]

\* A rewrite that adds the decider's field to the embed twice.
DecidedEmbedTwice(c) ==
  [ title |-> IF c.kind = "approve" THEN TitleApproved ELSE TitleDenied,
    by |-> c.snap.by \o
           [k \in 1..2 |->
              [name |-> IF c.kind = "approve" THEN "Approved By" ELSE "Denied By",
               value |-> Mention(c.actor)]] ]

\* Lines 731-744 and 842-855: the embed of interaction.message with the new
\* title and one more field.
DecidedEmbed(c) ==
  [ title |-> IF c.kind = "approve" THEN TitleApproved ELSE TitleDenied,
    by |-> Append(c.snap.by,
                  [name |-> IF c.kind = "approve" THEN "Approved By" ELSE "Denied By",
                   value |-> Mention(c.actor)]) ]

\* await interaction.response.edit_message(embed, view), the view's buttons
\* disabled; a failure reaches the outer except.
ClickEdit(c, ok) ==
  /\ Running(c) /\ clicks[c].pc = "edit"
  /\ IF ok
     THEN /\ msgs' = [msgs EXCEPT
               ![clicks[c].msg].title = DecidedEmbed(clicks[c]).title,
               ![clicks[c].msg].by = DecidedEmbed(clicks[c]).by,
               ![clicks[c].msg].controls = "disabled"]
          /\ reply' = Reply(clicks[c].actor, "edited", clicks[c].msg)
     ELSE /\ UNCHANGED msgs
          /\ reply' = Reply(clicks[c].actor, "error_edit", clicks[c].msg)
  /\ clicks' = Returned(c)
  /\ ClickFrame

(* ------------------------------------------------------------ the sweep *)
\* A sweep that collects no message.
CandidatesNone == <<>>

\* sync_guild lines 159-171: history(after=after_time) returns the messages
\* of the lookback window; one is collected when the bot is its author, it
\* has an embed and the title of the embed holds the request title.
IsCandidate(i) ==
  /\ msgs[i].recent
  /\ msgs[i].bot
  /\ msgs[i].embeds
  /\ IsRequestTitle(msgs[i].title)

\* sync_guild lines 162-173: the messages the pass collects, as fetched.
Candidates ==
  LET Fetched(i) == [id |-> i, title |-> msgs[i].title, uid |-> msgs[i].uid,
                     by |-> msgs[i].by, field |-> msgs[i].field,
                     mention |-> msgs[i].mention]
      F[i \in 0..Len(msgs)] ==
        IF i = 0 THEN <<>>
        ELSE IF IsCandidate(i) THEN Append(F[i - 1], Fetched(i))
        ELSE F[i - 1]
  IN F[Len(msgs)]

\* Python's title of a decided status (lines 275, 351).
TerminalTitle(status) == IF status = 1 THEN TitleApproved ELSE TitleDenied

\* The request messages that display pending while the store holds a
\* decision for their member.
Stale ==
  {i \in 1..Len(msgs) :
     /\ msgs[i].title = TitleRequest
     /\ members[msgs[i].uid].exists
     /\ members[msgs[i].uid].status \in {1, -1}}

\* How this pass follows the one before it (history).
PhaseAtStart ==
  CASE phase = "after_clean" -> "second_after_clean"
    [] phase = "after_failed" -> "second_after_failed"
    [] OTHER -> "first"

\* sync_all_guilds line 111 calls sync_guild(g); a manual run has no loop to
\* tell.
LoopEnter(l, g) ==
  IF l.pc = "guilds" THEN [l EXCEPT !.pc = "sweep", !.swept = @ \cup {g}] ELSE l

\* sync_guild lines 175-180: the history read failed, which is logged.
HistoryFailed(l, g) ==
  IF l.pc = "sweep" THEN [l EXCEPT !.failed = @ \cup {g}] ELSE l

\* A loop that gives up the communities it has not swept yet.
LoopReturnAbort(l) ==
  IF l.pc = "sweep" THEN [l EXCEPT !.todo = <<>>, !.pc = "sleep"] ELSE l

\* sync_guild returns to sync_all_guilds (lines 106-116), which goes on to
\* the next community, and after the last one to _run_loop's sleep (line 66).
LoopReturn(l) ==
  IF l.pc = "sweep"
  THEN [l EXCEPT !.todo = Tail(@),
                 !.pc = IF Tail(l.todo) = <<>> THEN "sleep" ELSE "guilds"]
  ELSE l

\* trigger_manual_run / sync_guild up to the end of the history read.  The
\* pass ends at once (returns) when the guild, its approval channel or its
\* settings are missing or the history read fails; line 173 has counted the
\* messages the read returned before it failed.
SweepStart(fetched) ==
  /\ sweep.pc = "idle"
  /\ sweeps < MaxSweeps
  /\ loop.pc \in {"off", "done", "guilds"}
  /\ loop.pc = "guilds" => Head(loop.todo) = Home
  /\ sweeps' = sweeps + 1
  /\ IF fetched
     THEN /\ stats' = [stats EXCEPT !.checked = @ + Len(Candidates)]
          /\ sweep' = [IdleSweep EXCEPT !.pc = "run", !.queue = Candidates,
                                        !.before = stats, !.stale = Stale]
          /\ phase' = PhaseAtStart
          /\ loop' = LoopEnter(loop, Home)
     ELSE /\ sweep' = IdleSweep
          /\ phase' = "after_failed"
          /\ loop' = LoopReturn(HistoryFailed(LoopEnter(loop, Home), Home))
          /\ \E seen \in 0..Len(Candidates) :
               stats' = [stats EXCEPT !.checked = @ + seen]
  /\ UNCHANGED <<members, audit, msgs, form, subs, clicks, reply, nclicks, pview,
                 submits, restarts, approvers, manual, pguild, guilds, cmds, nickform>>

\* _update_approved_message lines 256-271: the approver named by the first
\* onboarding_approved entry whose approved_user_id equals str(member.user_id).
OriginalDecider(action, m) ==
  LET hits == {k \in 1..Len(audit) :
                 audit[k].action = action /\ audit[k].uid = StrVal(m)}
  IN IF hits = {} THEN SystemSync
     ELSE audit[CHOOSE k \in hits : \A h \in hits : k <= h].by

\* An edit that leaves the view of the message in place.
SweptViewKept == "enabled"

\* Lines 297-298 and 373-374: message.edit(embed=new_embed, view=None) takes
\* the buttons off the message.
SweptView == "none"

\* A repair that leaves the title of the message as it was.
SyncEmbedOldTitle(q, title, name, info) ==
  [ title |-> q.title,
    by |-> Append(SelectSeq(q.by, LAMBDA f : f.name # name),
                  [name |-> name, value |-> info]) ]

\* Lines 273-289 and 349-365: the new embed, the old fields but `name`, then
\* the `name` field.
SyncEmbed(q, title, name, info) ==
  [ title |-> title,
    by |-> Append(SelectSeq(q.by, LAMBDA f : f.name # name),
                  [name |-> name, value |-> info]) ]

\* A sweep that reopens the decision of the member it looks at.
SweepFrameReopening ==
  /\ members' = [members EXCEPT ![Head(sweep.queue).uid].status = 0]
  /\ UNCHANGED <<form, subs, clicks, reply, nclicks, pview, submits, sweeps,
                 restarts, approvers, manual, pguild, guilds, cmds, nickform, loop, phase>>

\* What _sync_message and the two _update_*_message never write.
SweepFrame ==
  UNCHANGED <<members, form, subs, clicks, reply, nclicks, pview, submits, sweeps,
              restarts, approvers, manual, pguild, guilds, cmds, nickform, loop, phase>>

\* A sweep that gives up the messages it has not looked at yet.
PopAll == [sweep EXCEPT !.pc = "run", !.queue = <<>>, !.new = NoEmbed,
                        !.info = SystemSync]

\* sync_guild lines 185-186: the for loop goes on to the next message.
Pop == [sweep EXCEPT !.pc = "run", !.queue = Tail(@), !.new = NoEmbed,
                     !.info = SystemSync]

\* A sweep that takes a pending member for an approved one.
VerdictPendingApproved(row) ==
  IF ~row.exists THEN "leave"
  ELSE IF row.status \in {0, 1} THEN "approved"
  ELSE IF row.status = -1 THEN "denied" ELSE "leave"

\* _sync_message lines 206-215: no row returns, status 1 and -1 go to the
\* two updates, status 0 leaves the message as it is.
Verdict(row) ==
  IF ~row.exists THEN "leave"
  ELSE IF row.status = 1 THEN "approved"
  ELSE IF row.status = -1 THEN "denied" ELSE "leave"

\* _extract_user_id_from_embed lines 221-243: the "User ID" field when it is
\* a number, else the first <@id> of the description, else None.
ExtractUserId(q) ==
  IF q.field = "ok" THEN q.uid ELSE IF q.mention THEN q.uid ELSE NoUser

\* _sync_message up to await message.edit (or its return).  read: the store
\* read succeeds.
SyncMessage(read) ==
  /\ sweep.pc = "run" /\ sweep.queue # <<>>
  /\ LET q == Head(sweep.queue)
         row == members[q.uid]
         approved == OriginalDecider("onboarding_approved", q.uid)
         denied == OriginalDecider("onboarding_denied", q.uid)
     IN IF ExtractUserId(q) = NoUser
        THEN /\ UNCHANGED stats
             /\ sweep' = Pop
        ELSE IF ~read
        THEN /\ stats' = [stats EXCEPT !.errors = @ + 1]
             /\ sweep' = Pop
        ELSE /\ UNCHANGED stats
             /\ sweep' =
                  IF Verdict(row) = "approved" /\ ~ShowsApproved(q.title)
                  THEN [sweep EXCEPT !.pc = "edit", !.info = approved,
                          !.new = SyncEmbed(q, TitleApproved, "Approved By", approved)]
                  ELSE IF Verdict(row) = "denied" /\ ~ShowsDenied(q.title)
                  THEN [sweep EXCEPT !.pc = "edit", !.info = denied,
                          !.new = SyncEmbed(q, TitleDenied, "Denied By", denied)]
                  ELSE Pop
  /\ UNCHANGED <<audit, msgs>>
  /\ SweepFrame

\* Lines 297-315 and 373-391: await message.edit(embed=new_embed, view=None),
\* the counter, the sync_* audit entry and its commit.  A failure of the edit
\* or of the commit is caught and counted.
SyncEdit(out) ==
  /\ sweep.pc = "edit"
  /\ out \in {"ok", "edit_error", "commit_error"}
  /\ LET q == Head(sweep.queue)
         action == IF sweep.new.title = TitleApproved
                   THEN "sync_approved" ELSE "sync_denied"
     IN /\ msgs' = IF out = "edit_error" THEN msgs
                   ELSE [msgs EXCEPT ![q.id].title = sweep.new.title,
                                     ![q.id].by = sweep.new.by,
                                     ![q.id].controls = SweptView]
        /\ stats' = [stats EXCEPT
             !.updated = IF out = "edit_error" THEN @ ELSE @ + 1,
             !.errors = IF out = "ok" THEN @ ELSE @ + 1]
        /\ audit' = IF out = "ok"
                    THEN Append(audit, AuditEntry(action, q.uid, q.uid, NoVal,
                                                  sweep.info, q.id))
                    ELSE audit
  /\ sweep' = [Pop EXCEPT !.edited = IF out = "edit_error" THEN @
                                       ELSE @ \cup {Head(sweep.queue).id}]
  /\ SweepFrame

\* trigger_manual_run lines 412-421: the pass's own counts.
RunResult ==
  [ checked |-> stats.checked - sweep.before.checked,
    updated |-> stats.updated - sweep.before.updated,
    errors |-> stats.errors - sweep.before.errors ]

\* sync_guild returns; trigger_manual_run returns the counts.
SweepEnd ==
  /\ sweep.pc = "run" /\ sweep.queue = <<>>
  /\ sweep' = [IdleSweep EXCEPT !.result = RunResult]
  /\ phase' = IF RunResult.errors = 0 THEN "after_clean" ELSE "after_failed"
  /\ loop' = LoopReturn(loop)
  /\ UNCHANGED <<members, audit, msgs, form, subs, clicks, reply, nclicks, pview,
                 stats, submits, sweeps, restarts, approvers, manual, pguild, guilds, cmds, nickform>>

(* ------------------------------------------------- the background task *)
LoopFrame ==
  UNCHANGED <<members, audit, form, subs, clicks, reply, nclicks, pview, submits,
              sweeps, restarts, approvers, manual, pguild, guilds, cmds, nickform>>

\* SyncTask.start (lines 33-41): running, and a task that has not run yet.
LoopStart ==
  /\ ~loop.running
  /\ loop.starts < MaxStarts
  /\ loop' = [NoLoop EXCEPT !.running = TRUE, !.pc = "created",
                            !.cycles = loop.cycles, !.starts = loop.starts + 1]
  /\ UNCHANGED <<msgs, sweep, stats, phase>>
  /\ LoopFrame

\* _run_loop lines 59-76, one iteration from the while test to the next
\* await: the task runs for the first time or its sleep ends; _is_enabled
\* and sync_all_guilds read the Guild table (order: the communities with
\* sync_enabled).  out = "raises": a read raises, which line 72 counts
\* before the sleep of a minute.
LoopWake(order, out) ==
  /\ loop.running
  /\ loop.pc \in {"created", "sleep", "retry"}
  /\ loop.cycles < MaxCycles
  /\ out \in {"ok", "raises"}
  /\ Range(order) = EnabledGuilds
  /\ IF out = "raises"
     THEN /\ stats' = [stats EXCEPT !.errors = @ + 1]
          /\ loop' = [loop EXCEPT !.pc = "retry", !.cycles = @ + 1,
                                  !.delay = RetrySleep]
     ELSE /\ UNCHANGED stats
          /\ loop' = [loop EXCEPT
               !.pc = IF order = <<>> THEN "sleep" ELSE "guilds",
               !.todo = order, !.order = order, !.swept = {}, !.failed = {},
               !.cycles = @ + 1,
               !.delay = IF order = <<>> THEN DisabledSleep
                         ELSE GetInterval(order)]
  /\ UNCHANGED <<msgs, sweep, phase>>
  /\ LoopFrame

\* sync_all_guilds lines 110-116 for the other community: its sync_guild
\* works on another channel; when it raises, the error is counted.
OtherGuild(out) ==
  /\ loop.pc = "guilds"
  /\ Head(loop.todo) = Other
  /\ out \in {"ok", "raises"}
  /\ stats' = [stats EXCEPT !.errors = IF out = "raises" THEN @ + 1 ELSE @]
  /\ loop' = LoopReturn(LoopEnter(loop, Other))
  /\ UNCHANGED <<msgs, sweep, phase>>
  /\ LoopFrame

\* The task is suspended at an await: before its first run, in a sleep, in
\* the history read of the next community or in message.edit.
Suspended ==
  \/ loop.pc \in {"created", "sleep", "retry", "guilds"}
  \/ loop.pc = "sweep" /\ sweep.pc = "edit"

\* SyncTask.stop (lines 43-55): running False, task.cancel() and await task.
\* CancelledError is raised in the task at the await where it is suspended,
\* no except Exception catches it, and line 69 (or the end of the task) ends
\* the loop.  landed: the task was in message.edit and the request had
\* reached the platform, which applies it.
Stop(landed) ==
  /\ loop.running
  /\ Suspended
  /\ landed => sweep.pc = "edit"
  /\ loop' = [loop EXCEPT !.running = FALSE, !.pc = "done", !.todo = <<>>]
  /\ msgs' = IF landed
             THEN [msgs EXCEPT ![Head(sweep.queue).id].title = sweep.new.title,
                               ![Head(sweep.queue).id].by = sweep.new.by,
                               ![Head(sweep.queue).id].controls = SweptView]
             ELSE msgs
  /\ sweep' = IF sweep.pc = "idle" THEN sweep ELSE IdleSweep
  /\ phase' = IF sweep.pc = "idle" THEN phase ELSE "after_failed"
  /\ UNCHANGED stats
  /\ LoopFrame

(* ---------------------------------------------------------- the restart *)
\* The bot process restarts: every handler in flight is gone, the view
\* instances of the posted messages are gone, and setup_hook registers a
\* fresh persistent view and the SyncTask starts with fresh counters.
Restart ==
  /\ restarts < MaxRestarts
  /\ restarts' = restarts + 1
  /\ pview' = NoUser
  /\ pguild' = NoGuild
  /\ manual' = NoManual
  /\ msgs' = [i \in 1..Len(msgs) |-> [msgs[i] EXCEPT !.own = FALSE]]
  /\ clicks' = <<>>
  /\ subs' = [m \in Members |->
                IF subs[m].pc \in {"none", "done"} THEN subs[m]
                ELSE SubDone(subs[m], FALSE)]
  /\ form' = [m \in Members |-> FALSE]
  /\ sweep' = IdleSweep
  /\ stats' = SyncTaskInit
  /\ phase' = "noisy"
  /\ loop' = NoLoop
  /\ cmds' = NoCmds
  /\ UNCHANGED <<members, audit, reply, nclicks, approvers, guilds, nickform, submits, sweeps>>

(* ------------------------------------------------- the form's nickname *)
\* interaction.user.name of the applicant.
ApplicantName == <<"a", "d", "a">>

\* on_submit lines 76-136: the nickname is computed and stored in the
\* member's row.
NickSubmit ==
  /\ nickform.pc = "open"
  /\ nickform' = [nickform EXCEPT !.pc = "stored",
       !.nickname = ComputeNickname(nickform.template, nickform.names,
                                    nickform.values, ApplicantName)]
  /\ UNCHANGED <<members, audit, msgs, form, subs, clicks, reply, nclicks,
                 approvers, manual, pguild, guilds, cmds, pview, sweep, stats, submits, sweeps, restarts, loop,
                 phase>>

\* approve_button lines 652 and 694-709: the stored nickname is the nick of
\* member.edit, when set_nickname is on and the nickname is not empty.
NickApprove(enabled, out) ==
  /\ nickform.pc = "stored"
  /\ nickform' = [nickform EXCEPT !.pc = "approved",
       !.display = IF enabled /\ nickform.nickname # <<>> /\ out = "ok"
                   THEN nickform.nickname ELSE <<>>]
  /\ UNCHANGED <<members, audit, msgs, form, subs, clicks, reply, nclicks,
                 approvers, manual, pguild, guilds, cmds, pview, sweep, stats, submits, sweeps, restarts, loop,
                 phase>>

(* ------------------------------------------------------------ /remove *)
\* The member_removed entries of the audit log.
Removals == {k \in 1..Len(audit) : audit[k].action = "member_removed"}

\* AdminCog.remove_member lines 32-56: the member's row is deleted and the
\* removal logged, in one commit.
RemoveMember(m) ==
  /\ members[m].exists
  /\ Cardinality(Removals) < MaxRemoves
  /\ members' = [members EXCEPT ![m] = NoRecord]
  /\ audit' = Append(audit,
       AuditEntry("member_removed", m, m, NoVal, UserName(m), 0))
  /\ phase' = "noisy"
  /\ UNCHANGED <<msgs, form, subs, clicks, reply, nclicks, pview, sweep, stats,
                 submits, sweeps, restarts, approvers, manual, pguild, guilds, cmds, nickform, loop>>

(* ------------------------------------------- the member's own commands *)
\* The entries of the audit log with this action.
Logged(action) == {k \in 1..Len(audit) : audit[k].action = action}

\* What the commands leave alone.
CmdFrame ==
  /\ phase' = "noisy"
  /\ UNCHANGED <<msgs, form, subs, clicks, reply, nclicks, pview, sweep, stats,
                 submits, sweeps, restarts, approvers, manual, pguild, guilds, nickform, loop>>

\* A join that resets the row it finds.
InsertIfAbsentResets(m) ==
  members' = [members EXCEPT ![m] =
                [NoRecord EXCEPT !.exists = TRUE, !.rows = members[m].rows + 1]]

\* Check, then insert: a row with status 0 is added when the store holds no
\* row for the member, and an existing row is left as it is.
InsertIfAbsent(m) ==
  members' = IF members[m].exists THEN members
             ELSE [members EXCEPT ![m] =
                     [NoRecord EXCEPT !.exists = TRUE, !.rows = 1]]

\* VelaBot.on_member_join
MemberJoin(m) ==
  /\ InsertIfAbsent(m)
  /\ UNCHANGED <<audit, cmds>>
  /\ CmdFrame

\* OnboardingCog.cmd_reinit
Reinit(m) ==
  /\ InsertIfAbsent(m)
  /\ UNCHANGED <<audit, cmds>>
  /\ CmdFrame

\* OnboardingCog.slash_onboard up to the await of update_member_nickname:
\* refused when the stored status is above 0, else the names and the
\* nickname are stored in the member's row, if there is one, and logged.
SlashOnboard(m, nick) ==
  /\ cmds[m] = "idle"
  /\ Cardinality(Logged("nickname_update")) < MaxOnboards
  /\ Cardinality(Logged("onboarding_completed")) < MaxOnboards
  /\ IF members[m].exists /\ members[m].status > 0
     THEN UNCHANGED <<members, audit, cmds>>
     ELSE /\ cmds' = [cmds EXCEPT ![m] = "rename"]
          /\ IF members[m].exists
             THEN /\ members' = [members EXCEPT ![m].nickname = nick]
                  /\ audit' = Append(audit,
                       AuditEntry("nickname_update", m, m, NoVal, UserName(m), 0))
             ELSE UNCHANGED <<members, audit>>
  /\ CmdFrame

\* OnboardingCog.complete_onboarding lines 72-101, after member.edit of
\* update_member_nickname: the row, if there is one, becomes approved and
\* completed, and the completion is logged.  A failed member.edit makes
\* slash_onboard skip complete_onboarding.
CompleteOnboarding(m, renamed) ==
  /\ cmds[m] = "rename"
  /\ cmds' = [cmds EXCEPT ![m] = "idle"]
  /\ IF renamed
     THEN /\ members' = IF members[m].exists
                        THEN [members EXCEPT ![m].status = 1, ![m].completed = TRUE]
                        ELSE members
          /\ audit' = Append(audit,
               AuditEntry("onboarding_completed", m, m, NoVal, UserName(m), 0))
     ELSE UNCHANGED <<members, audit>>
  /\ CmdFrame

\* reset_onboarding of the dashboard: status 0, no completion time, no names.
ResetOnboarding(m) ==
  /\ members[m].exists
  /\ Cardinality(Logged("onboarding_reset")) < MaxResets
  /\ members' = [members EXCEPT ![m].status = 0, ![m].completed = FALSE,
                                ![m].nickname = NoNick]
  /\ audit' = Append(audit,
       AuditEntry("onboarding_reset", m, m, NoVal, "dashboard", 0))
  /\ UNCHANGED cmds
  /\ CmdFrame

(* ----------------------------------- a manual run for the other guild *)
\* What a manual run for the other guild leaves alone: it works on that
\* guild's channel and rows, and on the counters of the one SyncTask.
ManualFrame ==
  UNCHANGED <<members, audit, msgs, form, subs, clicks, reply, nclicks,
              approvers, pview, pguild, sweep, submits, sweeps, restarts, loop,
              nickform, cmds, guilds, phase>>

\* A counter-wise sum and difference of two stats records.
StatsPlus(x, y) ==
  [checked |-> x.checked + y.checked, updated |-> x.updated + y.updated,
   errors |-> x.errors + y.errors]

StatsMinus(x, y) ==
  [checked |-> x.checked - y.checked, updated |-> x.updated - y.updated,
   errors |-> x.errors - y.errors]

\* trigger_manual_run lines 412-421: the counters now less the copy taken
\* at the start.
ManualResult(before, now) == StatsMinus(now, before)

\* trigger_manual_run lines 404-409 and sync_guild up to the await of the
\* history read (line 162): before_stats is a copy of self.stats.
ManualStart ==
  /\ manual.pc = "idle"
  /\ manual' = [NoManual EXCEPT !.pc = "history", !.before = stats]
  /\ UNCHANGED stats
  /\ ManualFrame

\* sync_guild lines 162-186 up to the next await: the history read returns
\* n request messages, which line 173 counts; with none, or when the read
\* fails, the run returns its result.
ManualHistory(n) ==
  /\ manual.pc = "history"
  /\ n \in 0..MaxOtherMsgs
  /\ LET count == [ZeroStats EXCEPT !.checked = n]
     IN /\ stats' = StatsPlus(stats, count)
        /\ manual' =
             IF n = 0
             THEN [manual EXCEPT !.pc = "done", !.own = count,
                     !.result = ManualResult(manual.before, stats')]
             ELSE [manual EXCEPT !.pc = "edit", !.own = count, !.left = n]
  /\ ManualFrame

\* _sync_message and _update_*_message for one message of the other guild,
\* up to the return of message.edit: the counters as in SyncEdit; after the
\* last message the run returns its result.
ManualEdit(out) ==
  /\ manual.pc = "edit"
  /\ out \in {"ok", "edit_error", "commit_error"}
  /\ LET count == [ZeroStats EXCEPT
                     !.updated = IF out = "edit_error" THEN 0 ELSE 1,
                     !.errors = IF out = "ok" THEN 0 ELSE 1]
     IN /\ stats' = StatsPlus(stats, count)
        /\ manual' =
             [manual EXCEPT
                !.own = StatsPlus(@, count),
                !.left = @ - 1,
                !.pc = IF manual.left = 1 THEN "done" ELSE "edit",
                !.result = IF manual.left = 1
                           THEN ManualResult(manual.before, stats')
                           ELSE @]
  /\ ManualFrame

(* ------------------------------------------- a click in another guild *)
\* approve_button or deny_button lines 603-613, for a click on a request of
\* another guild that the registered view handles while it has nothing
\* cached: the view keeps the user id of that request and that guild's id.
\* What the click does to the other guild's rows is not followed.
ForeignClick(uid) ==
  /\ pview = NoUser
  /\ pview' = uid
  /\ pguild' = Other
  /\ UNCHANGED <<members, audit, msgs, form, subs, clicks, reply, nclicks,
                 approvers, manual, sweep, stats, submits, sweeps, restarts, loop,
                 nickform, cmds, guilds, phase>>

(* ------------------------------------------- the fields of the form *)
\* save_onboarding_fields: "Maximum 5 fields allowed".
FieldCap == 5

\* The longest list a request carries.
MaxRequest == 6

\* The entries of a request: complete ones, one without a name and one
\* without a label (the key is missing or its value is empty).
FieldEntries ==
  { [name |-> FirstName, label |-> "First Name"],
    [name |-> <<>>, label |-> "Email"],
    [name |-> Email, label |-> ""] }

\* The lists of fields a request can carry.
FieldRequests == UNION {[1..n -> FieldEntries] : n \in 0..MaxRequest}

\* The fields the form has when none are configured (lines 24-41).
DefaultFields ==
  << [name |-> FirstName, label |-> "First Name"],
     [name |-> LastName, label |-> "Last Name"] >>

\* A validation without the test of the length.
FieldsErrorNoCap(fields) ==
  IF \E k \in 1..Len(fields) : fields[k].name = <<>> \/ fields[k].label = ""
  THEN "field_incomplete"
  ELSE "fields_saved"

\* save_onboarding_fields lines 1051-1057: the HTTPException of a request,
\* if any.
FieldsError(fields) ==
  IF Len(fields) > FieldCap THEN "too_many_fields"
  ELSE IF \E k \in 1..Len(fields) : fields[k].name = <<>> \/ fields[k].label = ""
  THEN "field_incomplete"
  ELSE "fields_saved"

\* What the dashboard's handlers leave alone.
ConfigFrame ==
  UNCHANGED <<members, msgs, form, subs, clicks, nclicks, pview, sweep, stats,
              submits, sweeps, restarts, approvers, manual, pguild, cmds, loop, phase>>

\* save_onboarding_fields: a request that fails the validation is refused
\* with status 400; else the list is stored and the change logged, in one
\* commit.
SaveOnboardingFields(fields) ==
  /\ Len(audit) < MaxLog
  /\ reply' = Reply(101, FieldsError(fields), 0)
  /\ IF FieldsError(fields) = "fields_saved"
     THEN /\ guilds' = [guilds EXCEPT ![Home].fields = [set |-> TRUE, list |-> fields]]
          /\ audit' = Append(audit,
               AuditEntry("onboarding_fields_updated", 101, 101, NoVal,
                          UserName(101), 0))
     ELSE UNCHANGED <<guilds, audit>>
  /\ UNCHANGED nickform
  /\ ConfigFrame

\* update_setting with key "onboarding_fields": the value is stored as it
\* comes.
UpdateSetting(value) ==
  /\ Len(audit) < MaxLog
  /\ reply' = Reply(101, "setting_updated", 0)
  /\ guilds' = [guilds EXCEPT ![Home].fields = [set |-> TRUE, list |-> value]]
  /\ audit' = Append(audit,
       AuditEntry("setting_updated", 101, 101, NoVal, UserName(101), 0))
  /\ UNCHANGED nickform
  /\ ConfigFrame

\* create_onboarding_modal lines 16-71: the form gets one text input for
\* every entry of the stored list, or the default fields when no list is
\* stored.
CreateModal ==
  /\ nickform' = [NoNickForm EXCEPT
       !.pc = "rendered",
       !.names = LET config == IF guilds[Home].fields.set
                               THEN guilds[Home].fields.list ELSE DefaultFields
                 IN [k \in 1..Len(config) |-> config[k].name]]
  /\ UNCHANGED <<guilds, audit, reply>>
  /\ ConfigFrame

(* ------------------------------------------------------------- the system *)
RenameOutcomes == {"ok", "forbidden", "other"}
RoleOutcomes == {"missing", "ok", "other"}
NotifyOutcomes == {"ok", "forbidden", "http", "other"}
EditOutcomes == {"ok", "edit_error", "commit_error"}

\* The whole bot.
Next ==
  \/ \E m \in Members, s \in ButtonReads : OnboardButton(m, s)
  \/ \E m \in Members, nick \in Nicknames, s \in SubmitReads : OnSubmit(m, nick, s)
  \/ \E m \in Members, sent \in BOOLEAN : SubmitPost(m, sent)
  \/ \E m \in Members : SubmitRename(m)
  \/ \E m \in Members, found \in BOOLEAN : SubmitRole(m, found)
  \/ \E i \in 1..Len(msgs), a \in Actors, s \in ClickReads, commit, present \in BOOLEAN :
       ApproveButton(i, a, s, commit, present)
  \/ \E i \in 1..Len(msgs), a \in Actors, s \in ClickReads, commit, present \in BOOLEAN :
       DenyButton(i, a, s, commit, present)
  \/ \E c \in 1..Len(clicks), out \in RenameOutcomes : ApproveRename(c, out)
  \/ \E c \in 1..Len(clicks), out \in RoleOutcomes : ApproveRole(c, out)
  \/ \E c \in 1..Len(clicks), out \in NotifyOutcomes : ClickNotify(c, out)
  \/ \E c \in 1..Len(clicks), ok \in BOOLEAN : ClickEdit(c, ok)
  \/ \E fetched \in BOOLEAN : SweepStart(fetched)
  \/ \E read \in BOOLEAN : SyncMessage(read)
  \/ \E out \in EditOutcomes : SyncEdit(out)
  \/ SweepEnd
  \/ LoopStart
  \/ \E order \in GuildOrders, out \in {"ok", "raises"} : LoopWake(order, out)
  \/ \E out \in {"ok", "raises"} : OtherGuild(out)
  \/ \E landed \in BOOLEAN : Stop(landed)
  \/ \E m \in Members : RemoveMember(m)
  \/ NickSubmit
  \/ \E enabled \in BOOLEAN, out \in {"ok", "forbidden", "other"} :
       NickApprove(enabled, out)
  \/ \E m \in Members : MemberJoin(m)
  \/ \E m \in Members : Reinit(m)
  \/ \E m \in Members, nick \in Nicknames : SlashOnboard(m, nick)
  \/ \E m \in Members, renamed \in BOOLEAN : CompleteOnboarding(m, renamed)
  \/ \E m \in Members : ResetOnboarding(m)
  \/ \E fields \in FieldRequests : SaveOnboardingFields(fields)
  \/ \E value \in FieldRequests : UpdateSetting(value)
  \/ CreateModal
  \/ \E uid \in Members : ForeignClick(uid)
  \/ ManualStart
  \/ \E n \in 0..MaxOtherMsgs : ManualHistory(n)
  \/ \E out \in EditOutcomes : ManualEdit(out)
  \/ Restart

Spec == Init /\ [][Next]_vars

(* ------------------------------------------------ the submission alone *)
NextSubmit ==
  \/ \E m \in Members, s \in ButtonReads : OnboardButton(m, s)
  \/ \E m \in Members, nick \in Nicknames, s \in SubmitReads : OnSubmit(m, nick, s)
  \/ \E m \in Members, sent \in BOOLEAN : SubmitPost(m, sent)
  \/ \E m \in Members : SubmitRename(m)
  \/ \E m \in Members, found \in BOOLEAN : SubmitRole(m, found)

SpecSubmit == Init /\ [][NextSubmit]_vars

(* ------------------------------------- the buttons on posted requests *)
\* The states on_submit leaves behind in manual mode: n posted requests, the
\* first k of them posted before the bot's last start, and the pending rows
\* of their members.
InitPosted ==
  \E n \in 1..MaxMsgs :
    \E owner \in [1..n -> Members], nick \in [Members -> Nicknames], k \in {0, n} :
      LET owners == {owner[i] : i \in 1..n}
      IN /\ msgs = [i \in 1..n |-> [RequestMessage(owner[i]) EXCEPT !.own = (i > k)]]
         /\ members = [m \in Members |->
              IF m \in owners
              THEN [exists |-> TRUE, rows |-> 1, status |-> 0, completed |-> FALSE,
                    nickname |-> nick[m]]
              ELSE NoRecord]
         /\ nick \in [Members -> Nicknames]
         /\ \A m \in Members \ owners : nick[m] = NoNick
         /\ audit = [i \in 1..n |->
              AuditEntry("onboarding_modal_completed", owner[i], owner[i], NoVal,
                         UserName(owner[i]), 0)]
         /\ form = [m \in Members |-> FALSE]
         /\ subs = [m \in Members |-> NoSub]
         /\ clicks = <<>>
  /\ reply = NoReply
  /\ approvers \in {{}, {RoleApprover}}
  /\ loop = NoLoop
  /\ cmds = NoCmds
  /\ guilds = SyncOff
  /\ nickform = NoNickForm
  /\ nclicks = 0
         /\ pview = NoUser
         /\ pguild = NoGuild
         /\ manual = NoManual
         /\ sweep = IdleSweep
         /\ stats = SyncTaskInit
         /\ submits = n
         /\ sweeps = 0
         /\ restarts = 0
         /\ phase = "noisy"

NextClick ==
  \/ \E i \in 1..Len(msgs), a \in Actors, s \in ClickReads, commit, present \in BOOLEAN :
       ApproveButton(i, a, s, commit, present)
  \/ \E i \in 1..Len(msgs), a \in Actors, s \in ClickReads, commit, present \in BOOLEAN :
       DenyButton(i, a, s, commit, present)
  \/ \E c \in 1..Len(clicks), out \in RenameOutcomes : ApproveRename(c, out)
  \/ \E c \in 1..Len(clicks), out \in RoleOutcomes : ApproveRole(c, out)
  \/ \E c \in 1..Len(clicks), out \in NotifyOutcomes : ClickNotify(c, out)
  \/ \E c \in 1..Len(clicks), ok \in BOOLEAN : ClickEdit(c, ok)
  \/ Restart

SpecClick == InitPosted /\ [][NextClick]_vars

(* ------------------------------------- the sweep between the decisions *)
\* No handler is in flight and no pass has run.
Quiet == clicks = <<>> /\ sweeps = 0

\* The requests were posted since the bot's last start.
InitSync == InitPosted /\ \A i \in 1..Len(msgs) : msgs[i].own

\* The decisions are taken one at a time; the passes follow them and run
\* while nothing else does.
NextSync ==
  \/ \E i \in 1..Len(msgs), a \in Actors, s \in ClickReads, commit, present \in BOOLEAN :
       Quiet /\ ApproveButton(i, a, s, commit, present)
  \/ \E i \in 1..Len(msgs), a \in Actors, s \in ClickReads, commit, present \in BOOLEAN :
       Quiet /\ DenyButton(i, a, s, commit, present)
  \/ \E c \in 1..Len(clicks), out \in RenameOutcomes : ApproveRename(c, out)
  \/ \E c \in 1..Len(clicks), out \in RoleOutcomes : ApproveRole(c, out)
  \/ \E c \in 1..Len(clicks), out \in NotifyOutcomes : ClickNotify(c, out)
  \/ \E c \in 1..Len(clicks), ok \in BOOLEAN : ClickEdit(c, ok)
  \/ \E fetched \in BOOLEAN : clicks = <<>> /\ SweepStart(fetched)
  \/ \E read \in BOOLEAN : SyncMessage(read)
  \/ \E out \in EditOutcomes : SyncEdit(out)
  \/ SweepEnd

SpecSync == InitSync /\ [][NextSync]_vars

(* ----------------------------------------- the buttons and /remove *)
\* The buttons, while an admin may remove a member whose request is posted.
NextRemove ==
  \/ \E i \in 1..Len(msgs), a \in Actors, s \in ClickReads, commit, present \in BOOLEAN :
       ApproveButton(i, a, s, commit, present)
  \/ \E i \in 1..Len(msgs), a \in Actors, s \in ClickReads, commit, present \in BOOLEAN :
       DenyButton(i, a, s, commit, present)
  \/ \E c \in 1..Len(clicks), out \in RenameOutcomes : ApproveRename(c, out)
  \/ \E c \in 1..Len(clicks), out \in RoleOutcomes : ApproveRole(c, out)
  \/ \E c \in 1..Len(clicks), out \in NotifyOutcomes : ClickNotify(c, out)
  \/ \E c \in 1..Len(clicks), ok \in BOOLEAN : ClickEdit(c, ok)
  \/ \E m \in Members : RemoveMember(m)

SpecRemove == InitSync /\ [][NextRemove]_vars

(* ------------------------------------------------ the rows of the store *)
\* The member whose row is followed.
Applicants == {1}

\* The audit log has room for the entry of one more handler.
Room == Len(audit) < MaxLog

\* No handler is in flight.
Calm ==
  /\ Room
  /\ clicks = <<>>
  /\ \A m \in Members : subs[m].pc \in {"none", "done"} /\ cmds[m] = "idle"

\* Everything that writes a member's row: the join, the form, the member's
\* commands, the buttons, the dashboard's reset and /remove.  The handlers
\* that await run one at a time; the join, reinit, the reset and /remove,
\* which write without awaiting, come at any point between their steps.
NextRecords ==
  \/ \E m \in Applicants, s \in ButtonReads : OnboardButton(m, s)
  \/ \E m \in Applicants, nick \in Nicknames, s \in SubmitReads :
       Calm /\ OnSubmit(m, nick, s)
  \/ \E m \in Applicants, sent \in BOOLEAN : SubmitPost(m, sent)
  \/ \E m \in Applicants : SubmitRename(m)
  \/ \E m \in Applicants, found \in BOOLEAN : SubmitRole(m, found)
  \/ \E i \in 1..Len(msgs), a \in Actors, s \in ClickReads, commit, present \in BOOLEAN :
       Calm /\ ApproveButton(i, a, s, commit, present)
  \/ \E i \in 1..Len(msgs), a \in Actors, s \in ClickReads, commit, present \in BOOLEAN :
       Calm /\ DenyButton(i, a, s, commit, present)
  \/ \E c \in 1..Len(clicks), out \in RenameOutcomes : ApproveRename(c, out)
  \/ \E c \in 1..Len(clicks), out \in RoleOutcomes : ApproveRole(c, out)
  \/ \E c \in 1..Len(clicks), out \in NotifyOutcomes : ClickNotify(c, out)
  \/ \E c \in 1..Len(clicks), ok \in BOOLEAN : ClickEdit(c, ok)
  \/ \E m \in Applicants : MemberJoin(m)
  \/ \E m \in Applicants : Reinit(m)
  \/ \E m \in Applicants, nick \in Nicknames :
       Calm /\ SlashOnboard(m, nick)
  \/ \E m \in Applicants, renamed \in BOOLEAN : CompleteOnboarding(m, renamed)
  \/ \E m \in Applicants : Room /\ ResetOnboarding(m)
  \/ \E m \in Applicants : Room /\ RemoveMember(m)

SpecRecords == Init /\ [][NextRecords]_vars

(* ------------------------------------- the guard of the form's button *)
\* prevent_reonboarding stays enabled: the member opens the form and submits
\* it, approvers click on the posted requests; the handlers that await run
\* one at a time.
NextGuard ==
  \/ \E m \in Applicants : OnboardButton(m, DefaultSettings)
  \/ \E m \in Applicants, nick \in Nicknames, s \in SubmitReads :
       Calm /\ OnSubmit(m, nick, s)
  \/ \E m \in Applicants, sent \in BOOLEAN : SubmitPost(m, sent)
  \/ \E m \in Applicants : SubmitRename(m)
  \/ \E m \in Applicants, found \in BOOLEAN : SubmitRole(m, found)
  \/ \E i \in 1..Len(msgs), a \in Actors, s \in ClickReads, commit, present \in BOOLEAN :
       Calm /\ ApproveButton(i, a, s, commit, present)
  \/ \E i \in 1..Len(msgs), a \in Actors, s \in ClickReads, commit, present \in BOOLEAN :
       Calm /\ DenyButton(i, a, s, commit, present)
  \/ \E c \in 1..Len(clicks), out \in RenameOutcomes : ApproveRename(c, out)
  \/ \E c \in 1..Len(clicks), out \in RoleOutcomes : ApproveRole(c, out)
  \/ \E c \in 1..Len(clicks), out \in NotifyOutcomes : ClickNotify(c, out)
  \/ \E c \in 1..Len(clicks), ok \in BOOLEAN : ClickEdit(c, ok)

SpecGuard == Init /\ [][NextGuard]_vars

(* ------------------------------------------------- the manual mode *)
\* The approval mode stays manual: the member joins, opens and submits the
\* form, runs reinit and /onboard; approvers click on the posted requests.
NextManual ==
  \/ \E m \in Applicants, s \in ButtonReads : OnboardButton(m, s)
  \/ \E m \in Applicants, nick \in Nicknames :
       Calm /\ OnSubmit(m, nick, [DefaultSettings EXCEPT !.mode = "manual"])
  \/ \E m \in Applicants, sent \in BOOLEAN : SubmitPost(m, sent)
  \/ \E i \in 1..Len(msgs), a \in Actors, s \in ClickReads, commit, present \in BOOLEAN :
       Calm /\ ApproveButton(i, a, s, commit, present)
  \/ \E i \in 1..Len(msgs), a \in Actors, s \in ClickReads, commit, present \in BOOLEAN :
       Calm /\ DenyButton(i, a, s, commit, present)
  \/ \E c \in 1..Len(clicks), out \in RenameOutcomes : ApproveRename(c, out)
  \/ \E c \in 1..Len(clicks), out \in RoleOutcomes : ApproveRole(c, out)
  \/ \E c \in 1..Len(clicks), out \in NotifyOutcomes : ClickNotify(c, out)
  \/ \E c \in 1..Len(clicks), ok \in BOOLEAN : ClickEdit(c, ok)
  \/ \E m \in Applicants : MemberJoin(m)
  \/ \E m \in Applicants : Reinit(m)
  \/ \E m \in Applicants, nick \in Nicknames :
       Calm /\ SlashOnboard(m, nick)
  \/ \E m \in Applicants, renamed \in BOOLEAN : CompleteOnboarding(m, renamed)

SpecManual == Init /\ [][NextManual]_vars

(* ------------------------------------- the buttons in two guilds *)
\* The requests of the Home guild are clicked by an approver of that guild
\* while the registered view also serves the requests of another guild.
NextPermission ==
  \/ \E i \in 1..Len(msgs), s \in ClickReads, commit, present \in BOOLEAN :
       ApproveButton(i, 101, s, commit, present)
  \/ \E i \in 1..Len(msgs), s \in ClickReads, commit, present \in BOOLEAN :
       DenyButton(i, 101, s, commit, present)
  \/ \E c \in 1..Len(clicks), out \in RenameOutcomes : ApproveRename(c, out)
  \/ \E c \in 1..Len(clicks), out \in RoleOutcomes : ApproveRole(c, out)
  \/ \E c \in 1..Len(clicks), out \in NotifyOutcomes : ClickNotify(c, out)
  \/ \E c \in 1..Len(clicks), ok \in BOOLEAN : ClickEdit(c, ok)
  \/ \E uid \in Members : ForeignClick(uid)
  \/ Restart

SpecPermission == InitPosted /\ [][NextPermission]_vars

(* ------------------------------------------- the configured fields *)
\* The dashboard saves lists of fields, by save_onboarding_fields or, with
\* lists of six complete entries, by update_setting; members open the form.
NextFields ==
  \/ \E fields \in FieldRequests : SaveOnboardingFields(fields)
  \/ \E value \in FieldRequests :
       /\ Len(value) = MaxRequest /\ FieldsErrorNoCap(value) = "fields_saved"
       /\ UpdateSetting(value)
  \/ CreateModal

SpecFields == Init /\ [][NextFields]_vars

(* ------------------------------------------- the messages of a channel *)
\* What a message of the approval channel can be: written by the bot or by
\* someone else, inside the lookback window or older, without an embed or
\* with one that shows a request or a decision.
Looks ==
  { l \in [bot : BOOLEAN, recent : BOOLEAN, embeds : BOOLEAN,
           title : {<<>>, TitleRequest, TitleApproved, TitleDenied}] :
      /\ l.embeds <=> l.title # <<>>
      /\ (IF l.bot THEN 0 ELSE 1) + (IF l.recent THEN 0 ELSE 1)
           + (IF l.embeds THEN 0 ELSE 1)
           + (IF l.title \in {TitleApproved, TitleDenied} THEN 1 ELSE 0) <= 1 }

\* The message of member m that looks like l; the click that decided a
\* request left its field and disabled the buttons.
ChannelMessage(m, l) ==
  [RequestMessage(m) EXCEPT
     !.title = l.title, !.bot = l.bot, !.recent = l.recent, !.embeds = l.embeds,
     !.own = FALSE,
     !.controls = IF l.title = TitleRequest THEN "enabled"
                  ELSE IF l.embeds THEN "disabled" ELSE "none",
     !.by = IF l.title = TitleApproved
            THEN <<[name |-> "Approved By", value |-> Mention(101)]>>
            ELSE IF l.title = TitleDenied
            THEN <<[name |-> "Denied By", value |-> Mention(101)]>>
            ELSE <<>>]

\* A channel with one message for each of the first n members, and their
\* rows, pending or decided.
InitChannel ==
  /\ \E n \in 1..MaxMsgs :
       \E look \in [1..n -> Looks], st \in [Members -> {0, 1, -1}] :
         /\ \A m \in Members : m > n => st[m] = 0
         /\ msgs = [i \in 1..n |-> ChannelMessage(i, look[i])]
         /\ members = [m \in Members |->
              [exists |-> TRUE, rows |-> 1, status |-> st[m],
               completed |-> (st[m] = 1), nickname |-> NoNick]]
  /\ audit = <<>>
  /\ form = [m \in Members |-> FALSE]
  /\ subs = [m \in Members |-> NoSub]
  /\ clicks = <<>>
  /\ reply = NoReply
  /\ approvers = {RoleApprover}
  /\ loop = NoLoop
  /\ cmds = NoCmds
  /\ guilds = SyncOff
  /\ nickform = NoNickForm
  /\ nclicks = 0
  /\ pview = NoUser
  /\ pguild = NoGuild
  /\ manual = NoManual
  /\ sweep = IdleSweep
  /\ stats = SyncTaskInit
  /\ submits = 0
  /\ sweeps = 0
  /\ restarts = 0
  /\ phase = "noisy"

\* Manual runs over the channel, while the approver decides one of the
\* bot's requests (the rows hold no nickname and the community has no
\* onboarded role, so the click renames nobody and grants no role).
NextChannel ==
  \/ \E i \in 1..Len(msgs), present \in BOOLEAN :
       /\ nclicks = 0 /\ msgs[i].bot
       /\ ApproveButton(i, 101, [DefaultSettings EXCEPT !.mode = "manual"],
                        TRUE, present)
  \/ \E i \in 1..Len(msgs), present \in BOOLEAN :
       /\ nclicks = 0 /\ msgs[i].bot
       /\ DenyButton(i, 101, [DefaultSettings EXCEPT !.mode = "manual"],
                     TRUE, present)
  \/ \E c \in 1..Len(clicks), out \in NotifyOutcomes : ClickNotify(c, out)
  \/ \E c \in 1..Len(clicks), ok \in BOOLEAN : ClickEdit(c, ok)
  \/ \E fetched \in BOOLEAN : SweepStart(fetched)
  \/ \E read \in BOOLEAN : SyncMessage(read)
  \/ \E out \in EditOutcomes : SyncEdit(out)
  \/ SweepEnd

SpecChannel == InitChannel /\ [][NextChannel]_vars

(* ------------------------------------- a sweep during a click *)
\* The approver decides one of the bot's requests; a manual run reads the
\* history before or after the click and looks at the messages it has
\* collected once the click is past its commit.
NextRace ==
  \/ \E i \in 1..Len(msgs), present \in BOOLEAN :
       /\ nclicks = 0 /\ msgs[i].bot
       /\ ApproveButton(i, 101, [DefaultSettings EXCEPT !.mode = "manual"],
                        TRUE, present)
  \/ \E i \in 1..Len(msgs), present \in BOOLEAN :
       /\ nclicks = 0 /\ msgs[i].bot
       /\ DenyButton(i, 101, [DefaultSettings EXCEPT !.mode = "manual"],
                     TRUE, present)
  \/ \E c \in 1..Len(clicks), out \in NotifyOutcomes : ClickNotify(c, out)
  \/ \E c \in 1..Len(clicks), ok \in BOOLEAN : ClickEdit(c, ok)
  \/ \E fetched \in BOOLEAN : SweepStart(fetched)
  \/ \E read \in BOOLEAN : nclicks = 1 /\ SyncMessage(read)
  \/ \E out \in EditOutcomes : SyncEdit(out)
  \/ SweepEnd

SpecRace == InitChannel /\ [][NextRace]_vars

(* --------------------------------------------- the nickname of a form *)
\* The templates of the guild setting nickname_template: none, and two that
\* name the standard fields.
Templates ==
  { <<>>,
    Placeholder(FirstName) \o <<" ">> \o Placeholder(LastName),
    Placeholder(LastName) \o <<",">> \o Placeholder(FirstName) }

\* The fields of the form (onboarding_fields), in the order of the setting.
FieldLists ==
  { <<FirstName, LastName>>, <<LastName, FirstName>>, <<FirstName>>,
    <<Email, FirstName>> }

\* What an applicant types into a field: names, nothing (a field that is not
\* required), a text of 40 characters, and the text of a placeholder.
TypedValues ==
  { <<"A", "d", "a">>, <<"L", "o", "v", "e", "l", "a", "c", "e">>, <<"G", "r", "a", "c", "e">>, <<>>,
    [k \in 1..40 |-> "x"], Placeholder(LastName) }

InitNick ==
  /\ members = [m \in Members |-> NoRecord]
  /\ audit = <<>>
  /\ msgs = <<>>
  /\ form = [m \in Members |-> FALSE]
  /\ subs = [m \in Members |-> NoSub]
  /\ clicks = <<>>
  /\ reply = NoReply
  /\ approvers = {RoleApprover}
  /\ loop = NoLoop
  /\ cmds = NoCmds
  /\ guilds = SyncOff
  /\ nclicks = 0
  /\ pview = NoUser
  /\ pguild = NoGuild
  /\ manual = NoManual
  /\ sweep = IdleSweep
  /\ stats = SyncTaskInit
  /\ submits = 0
  /\ sweeps = 0
  /\ restarts = 0
  /\ phase = "noisy"
  /\ \E template \in Templates, names \in FieldLists :
       \E values \in [1..Len(names) -> TypedValues] :
         nickform = [NoNickForm EXCEPT !.pc = "open", !.template = template,
                                      !.names = names, !.values = values]

NextNick ==
  \/ NickSubmit
  \/ \E enabled \in BOOLEAN, out \in {"ok", "forbidden", "other"} :
       NickApprove(enabled, out)

SpecNick == InitNick /\ [][NextNick]_vars

(* ------------------------------- the buttons on requests of old shape *)
\* How the embed of a request names its member: by the "User ID" field, by
\* a field that is no number, or by no field, with or without the mention in
\* the description.
Shapes == [field : {"ok", "absent", "bad"}, mention : BOOLEAN]

\* Pending requests the channel holds from before the bot's last start, in
\* every shape _extract_user_id_from_embed provides for.
InitLegacy ==
  \E n \in 1..MaxMsgs :
    \E owner \in [1..n -> Members], shape \in [1..n -> Shapes] :
      LET owners == {owner[i] : i \in 1..n}
      IN /\ msgs = [i \in 1..n |->
              [RequestMessage(owner[i]) EXCEPT !.own = FALSE,
                 !.field = shape[i].field, !.mention = shape[i].mention]]
         /\ members = [m \in Members |->
              IF m \in owners
              THEN [exists |-> TRUE, rows |-> 1, status |-> 0, completed |-> FALSE,
                    nickname |-> "Ada Lovelace"]
              ELSE NoRecord]
         /\ audit = [i \in 1..n |->
              AuditEntry("onboarding_modal_completed", owner[i], owner[i], NoVal,
                         UserName(owner[i]), 0)]
         /\ submits = n
  /\ form = [m \in Members |-> FALSE]
  /\ subs = [m \in Members |-> NoSub]
  /\ clicks = <<>>
  /\ reply = NoReply
  /\ approvers = {RoleApprover}
  /\ loop = NoLoop
  /\ cmds = NoCmds
  /\ guilds = SyncOff
  /\ nickform = NoNickForm
  /\ nclicks = 0
  /\ pview = NoUser
  /\ pguild = NoGuild
  /\ manual = NoManual
  /\ sweep = IdleSweep
  /\ stats = SyncTaskInit
  /\ sweeps = 0
  /\ restarts = 0
  /\ phase = "noisy"

NextLegacy ==
  \/ \E i \in 1..Len(msgs), a \in Actors, s \in ClickReads, commit, present \in BOOLEAN :
       ApproveButton(i, a, s, commit, present)
  \/ \E i \in 1..Len(msgs), a \in Actors, s \in ClickReads, commit, present \in BOOLEAN :
       DenyButton(i, a, s, commit, present)
  \/ \E c \in 1..Len(clicks), out \in RenameOutcomes : ApproveRename(c, out)
  \/ \E c \in 1..Len(clicks), out \in RoleOutcomes : ApproveRole(c, out)
  \/ \E c \in 1..Len(clicks), out \in NotifyOutcomes : ClickNotify(c, out)
  \/ \E c \in 1..Len(clicks), ok \in BOOLEAN : ClickEdit(c, ok)

SpecLegacy == InitLegacy /\ [][NextLegacy]_vars

(* ------------------------------------------- the task and its passes *)
\* The entry a click by the approver leaves for the decision st on m.
DecisionEntry(m, st) ==
  AuditEntry(IF st = 1 THEN "onboarding_approved" ELSE "onboarding_denied",
             101, 101, IntVal(m), UserName(101), 0)

\* The states the buttons leave behind when their message edits failed: n
\* requests that still display pending, and for every member a row that is
\* pending or was decided by the approver, with the audit entries of the
\* submissions and of the decisions.
InitLoop ==
  \E n \in 1..MaxMsgs :
    \E owner \in [1..n -> Members], st \in [Members -> {0, 1, -1}] :
      LET owners == {owner[i] : i \in 1..n}
          decided == SelectSeq(<<1, 2>>, LAMBDA m : m \in owners /\ st[m] # 0)
      IN /\ \A m \in Members \ owners : st[m] = 0
         /\ msgs = [i \in 1..n |-> RequestMessage(owner[i])]
         /\ members = [m \in Members |->
              IF m \in owners
              THEN [exists |-> TRUE, rows |-> 1, status |-> st[m],
                    completed |-> (st[m] = 1),
                    nickname |-> NoNick]
              ELSE NoRecord]
         /\ audit =
              [i \in 1..n |->
                 AuditEntry("onboarding_modal_completed", owner[i], owner[i], NoVal,
                            UserName(owner[i]), 0)]
              \o [k \in 1..Len(decided) |-> DecisionEntry(decided[k], st[decided[k]])]
         /\ nclicks = Len(decided)
         /\ submits = n
  /\ form = [m \in Members |-> FALSE]
  /\ subs = [m \in Members |-> NoSub]
  /\ clicks = <<>>
  /\ reply = NoReply
  /\ approvers = {RoleApprover}
  /\ loop = NoLoop
  /\ cmds = NoCmds
  /\ guilds \in GuildRows
  /\ nickform = NoNickForm
  /\ pview = NoUser
  /\ pguild = NoGuild
  /\ manual = NoManual
  /\ sweep = IdleSweep
  /\ stats = SyncTaskInit
  /\ sweeps = 0
  /\ restarts = 0
  /\ phase = "noisy"

\* The task is started and stopped, and sweeps in its cycles.
NextLoop ==
  \/ LoopStart
  \/ \E order \in GuildOrders, out \in {"ok", "raises"} : LoopWake(order, out)
  \/ \E out \in {"ok", "raises"} : OtherGuild(out)
  \/ \E fetched \in BOOLEAN : loop.running /\ SweepStart(fetched)
  \/ \E read \in BOOLEAN : SyncMessage(read)
  \/ \E out \in EditOutcomes : SyncEdit(out)
  \/ SweepEnd
  \/ \E landed \in BOOLEAN : Stop(landed)

SpecLoop == InitLoop /\ [][NextLoop]_vars

(* ------------------------------------- two passes, one SyncTask *)
\* The Home guild has the sweep enabled, the other guild has not.
HomeSwept ==
  [g \in Guilds |->
     [SyncOff[g] EXCEPT !.sync_enabled = IF g = Home THEN "on" ELSE "unset"]]

InitShared ==
  /\ InitLoop
  /\ guilds = HomeSwept

\* The task's timer-driven passes over the Home guild, while a manual run is
\* triggered for the other guild.
NextShared ==
  \/ LoopStart
  \/ \E order \in GuildOrders, out \in {"ok", "raises"} : LoopWake(order, out)
  \/ \E fetched \in BOOLEAN : loop.running /\ SweepStart(fetched)
  \/ \E read \in BOOLEAN : SyncMessage(read)
  \/ \E out \in EditOutcomes : SyncEdit(out)
  \/ SweepEnd
  \/ ManualStart
  \/ \E n \in 0..MaxOtherMsgs : ManualHistory(n)
  \/ \E out \in EditOutcomes : ManualEdit(out)

SpecShared == InitShared /\ [][NextShared]_vars

(* ------------------------------------------- properties of the buttons *)
\* The onboarding_approved entries of member m.
ApprovalsOf(m) ==
  {k \in 1..Len(audit) :
     audit[k].action = "onboarding_approved" /\ audit[k].uid = IntVal(m)}

\* C1: of the Approve clicks on one pending record only one is applied, so
\* the approval of a record that was submitted once is recorded once.
C1_ApprovedOnce == \A m \in Members : Cardinality(ApprovalsOf(m)) <= 1

\* C2: an Approve handler that goes on to the side effects did not find the
\* record already approved.
C2_NoSecondApproval ==
  \A c \in 1..Len(clicks) : clicks[c].kind = "approve" => clicks[c].prev # 1

\* C3: approved and denied are absorbing for the buttons: a step of a click
\* handler leaves a decided status as it is.
C3_TerminalAbsorbing ==
  [][\A m \in Members :
       members[m].status \in {1, -1} => members'[m].status = members[m].status]_vars

\* The actor holds one of the approver roles.
HoldsApproverRole(a) == UserRoles(a) \cap approvers # {}

\* The decisions in the audit log.
Decisions ==
  {k \in 1..Len(audit) : audit[k].action \in {"onboarding_approved", "onboarding_denied"}}

\* C4: a click of an actor who holds none of the approver roles gets the
\* permission error and changes nothing: such an actor never has a handler
\* past the permission check (so no side effect and no message edit), never
\* a decision in the audit log (so no status or completion time written),
\* never a message naming them, and never an answer but the permission error.
C4_NonApproverRejected ==
  /\ \A c \in 1..Len(clicks) : HoldsApproverRole(clicks[c].actor)
  /\ \A k \in Decisions : HoldsApproverRole(audit[k].user)
  /\ \A i \in 1..Len(msgs) : \A f \in 1..Len(msgs[i].by) :
       msgs[i].by[f].value.k = "mention" => HoldsApproverRole(msgs[i].by[f].value.a)
  /\ (reply.text # "none" /\ ~HoldsApproverRole(reply.to))
       => reply.text = "permission_error"

\* C4 witness: an actor without an approver role clicked a button of a guild
\* that has approver roles, and got the permission error.
C4_Witness ==
  /\ reply.text = "permission_error" /\ ~HoldsApproverRole(reply.to)
  /\ approvers # {}

\* The audit entry that handler c committed is in the log.
Committed(c) ==
  \E k \in 1..Len(audit) :
    /\ audit[k].action =
         (IF clicks[c].kind = "approve" THEN "onboarding_approved" ELSE "onboarding_denied")
    /\ audit[k].user = clicks[c].actor
    /\ audit[k].uid = IntVal(clicks[c].target)

\* C5: a handler that awaits a side effect or the message edit has committed
\* its decision: the audit entry written in the commit of the new status is
\* in the log.
C5_CommitFirst == \A c \in 1..Len(clicks) : Committed(c)

\* C5 witness: a handler has made its side effects and awaits the edit.
C5_Witness ==
  \E c \in 1..Len(clicks) : clicks[c].pc = "edit" /\ clicks[c].tried # <<>>

\* C6: whatever the notification of an Approve does, the handler goes on to
\* rewrite the message.
C6_NotifyFailureIsolated ==
  [][\A c \in 1..Len(clicks), out \in NotifyOutcomes :
       (clicks[c].kind = "approve" /\ ClickNotify(c, out))
       => Len(clicks') = Len(clicks) /\ clicks'[c].pc = "edit"]_vars

\* The message of handler c shows the decision and names the actor.
Rerendered(c, title, name) ==
  /\ msgs'[c.msg].title = title
  /\ Len(msgs'[c.msg].by) > 0
  /\ msgs'[c.msg].by[Len(msgs'[c.msg].by)] = [name |-> name, value |-> Mention(c.actor)]

\* C7: an Approve handler that decided a pending record returns (unless the
\* edit itself fails) with the message showing the approved title and an
\* "Approved By" field that names the actor, and the record is approved.
C7_ApproveCompletes ==
  [][\A c \in 1..Len(clicks) :
       ( /\ clicks[c].kind = "approve" /\ clicks[c].prev = 0
         /\ restarts' = restarts
         /\ clicks' = Returned(c)
         /\ reply'.text # "error_edit" )
       => Rerendered(clicks[c], TitleApproved, "Approved By")]_vars

\* C8: a Deny handler that decided a pending record attempts neither the
\* rename nor the role and returns (unless the edit itself fails) with the
\* message showing the denied title and a "Denied By" field naming the actor.
C8_DenyCompletes ==
  [][\A c \in 1..Len(clicks) :
       ( /\ clicks[c].kind = "deny" /\ clicks[c].prev = 0
         /\ restarts' = restarts
         /\ clicks' = Returned(c)
         /\ reply'.text # "error_edit" )
       => /\ Rerendered(clicks[c], TitleDenied, "Denied By")
          /\ \A t \in 1..Len(clicks[c].tried) : clicks[c].tried[t].kind = "notify"]_vars

(* ------------------------------------------ properties of on_submit *)
\* The on_submit handler of m has returned.
Submitted(m) == subs[m].pc = "done"

NothingUpdated == stats.updated = sweep.before.updated /\ sweep.pc # "edit"

PassDone == sweep.pc = "run" /\ sweep.queue = <<>>

\* The message displays the decision stored for its member.
ShowsStored(i) == msgs[i].title = TerminalTitle(members[msgs[i].uid].status)

Decided ==
  {i \in 1..Len(msgs) :
     members[msgs[i].uid].exists /\ members[msgs[i].uid].status \in {1, -1}}

\* C12: when a sweep pass has completed with no error, every bot-authored
\* approval message of the window whose member's stored status is approved
\* or denied displays the title of that status, also a message that displayed
\* the other decision before the pass.
C12_ConvergesToStore ==
  (PassDone /\ RunResult.errors = 0) => \A i \in Decided : ShowsStored(i)

\* A step of the sweep.
SweepStep == sweep' # sweep \/ sweeps' # sweeps \/ stats' # stats

SyncActions == {"sync_approved", "sync_denied"}

\* The audit log grew by nothing, or by one sync_* entry.
OnlySyncLogged ==
  \/ audit' = audit
  \/ /\ Len(audit') = Len(audit) + 1
     /\ SubSeq(audit', 1, Len(audit)) = audit
     /\ audit'[Len(audit')].action \in SyncActions

\* C13: a sweep never decides.  Its steps leave every member's status,
\* completed_at and nickname, the handlers of the buttons and of the
\* submissions and their replies as they are; they change only the display of
\* messages (title, fields, controls), the sync_* entries of the audit log and
\* the sweep's counters.
C13_SweepReadOnly ==
  [][SweepStep =>
       /\ members' = members
       /\ UNCHANGED <<clicks, subs, form, reply, nclicks, pview, approvers>>
       /\ OnlySyncLogged
       /\ Len(msgs') = Len(msgs)
       /\ \A i \in 1..Len(msgs) :
            msgs'[i].uid = msgs[i].uid /\ msgs'[i].own = msgs[i].own]_vars

\* A pass rewrote a message of a decided member and logged it.
C13_Witness ==
  /\ stats.updated >= 1
  /\ \E k \in 1..Len(audit) : audit[k].action \in SyncActions
  /\ \E m \in Members : members[m].status \in {1, -1}

\* The member of message i is pending in the store.
PendingInStore(i) ==
  members[msgs[i].uid].exists /\ members[msgs[i].uid].status = 0

\* C14: a sweep leaves the request message of a pending member untouched:
\* the message is not edited and keeps its controls, no audit entry is
\* written for the member and messages_updated is not incremented for it.
C14_PendingUntouched ==
  [][SweepStep =>
       /\ \A i \in 1..Len(msgs) : PendingInStore(i) => msgs'[i] = msgs[i]
       /\ audit' # audit =>
            ~(members[audit'[Len(audit')].user].exists
              /\ members[audit'[Len(audit')].user].status = 0)
       /\ stats'.updated # stats.updated =>
            ~PendingInStore(Head(sweep.queue).id)]_vars

\* A pass looked at the request of a pending member, which is still
\* displayed as a request with its controls, and repaired another message.
C14_Witness ==
  /\ PassDone /\ RunResult.checked = 2 /\ RunResult.updated = 1
  /\ \E i \in 1..Len(msgs) :
       /\ PendingInStore(i)
       /\ msgs[i].title = TitleRequest /\ msgs[i].controls = "enabled"

\* The audit entries before entry k that record a click deciding, as entry
\* k's sync action says, on entry k's member.
ClickEntriesFor(k) ==
  LET action == IF audit[k].action = "sync_approved"
                THEN "onboarding_approved" ELSE "onboarding_denied"
  IN {h \in 1..(k - 1) :
        audit[h].action = action /\ audit[h].uid.v = audit[k].user}

\* C15: a sweep rewrite names the original deciding actor, recovered from the
\* audit entry of the click, in the sync audit entry's original_approver (and
\* in the 'Approved By' / 'Denied By' field); it names 'System (sync)' only
\* when the audit log holds no such entry.
C15_NamesOriginalDecider ==
  \A k \in 1..Len(audit) :
    audit[k].action \in SyncActions =>
      IF ClickEntriesFor(k) = {}
      THEN audit[k].by = SystemSync
      ELSE \E h \in ClickEntriesFor(k) : audit[k].by = audit[h].by

ClickActions == {"onboarding_approved", "onboarding_denied"}

\* The audit log records a click by an actor that decided `action` on m.
ClickLogged(action, m) ==
  \E k \in 1..Len(audit) :
    /\ audit[k].action = action
    /\ audit[k].user \in Actors
    /\ audit[k].uid = IntVal(m)

\* The audit log records the sweep's rewrite of message i.
RewriteLogged(i) ==
  \E k \in 1..Len(audit) :
    /\ audit[k].action =
         (IF msgs[i].title = TitleApproved THEN "sync_approved" ELSE "sync_denied")
    /\ audit[k].user = msgs[i].uid
    /\ audit[k].msg = i

\* C16: every decision taken by a click has its onboarding_approved or
\* onboarding_denied entry naming the actor and the target, every message a
\* sweep rewrote has its sync_approved or sync_denied entry, and the two
\* families of actions are disjoint.
C16_EveryTransitionLogged ==
  /\ ClickActions \cap SyncActions = {}
  /\ \A m \in Members :
       /\ members[m].status = 1 => ClickLogged("onboarding_approved", m)
       /\ members[m].status = -1 => ClickLogged("onboarding_denied", m)
  /\ \A i \in 1..Len(msgs) : msgs[i].controls = "none" => RewriteLogged(i)

\* C17: a failure while one message is processed (the store read, the edit,
\* the audit commit) is caught: it adds one to the error counter for that
\* message and the pass goes on to the next message.  Each step of the pass
\* on a message either goes to the edit of that message or leaves exactly
\* that message behind; a failed edit or commit counts one error; the pass
\* returns only when no message is left.
C17_ErrorsIsolated ==
  [][/\ (sweep.pc \in {"run", "edit"} /\ sweep.queue # <<>> /\ sweep' # sweep) =>
          /\ \/ sweep'.pc = "edit" /\ sweep'.queue = sweep.queue /\ stats' = stats
             \/ sweep'.pc = "run" /\ sweep'.queue = Tail(sweep.queue)
          /\ stats'.errors \in {stats.errors, stats.errors + 1}
          /\ (sweep.pc = "edit" /\ (msgs' = msgs \/ audit' = audit))
               => stats'.errors = stats.errors + 1
          /\ stats'.errors = stats.errors + 1 =>
               sweep'.pc = "run" /\ sweep'.queue = Tail(sweep.queue)
     /\ (sweep.pc # "idle" /\ sweep'.pc = "idle") => sweep.queue = <<>>]_vars

\* Both messages were stale; the first one failed and still shows the
\* request, the second one was repaired by the same pass.
C17_Witness ==
  /\ PassDone /\ RunResult.errors = 1 /\ RunResult.updated = 1
  /\ sweep.stale = {1, 2} /\ sweep.edited = {2}
  /\ msgs[1].title = TitleRequest /\ msgs[2].title # TitleRequest

\* C18: when the history read of a community fails, the sweep of that
\* community ends for this cycle without an edit and without an audit entry
\* and the failure is logged; the communities that follow it in the cycle are
\* still swept (at the cycle's sleep every community with sync_enabled was
\* swept), and the loop stays alive: the task ends only when it is stopped.
C18_HistoryFailureContained ==
  /\ [](loop.pc = "sleep" => loop.swept = Range(loop.order))
  /\ [](loop.running => loop.pc \notin {"off", "done"})
  /\ [][loop'.failed \notin {loop.failed, {}} =>
         /\ msgs' = msgs /\ audit' = audit
         /\ stats'.updated = stats.updated /\ stats'.errors = stats.errors
         /\ sweep'.pc = "idle"
         /\ loop'.running
         /\ loop'.todo = Tail(loop.todo)]_vars

\* The history read of Home failed and the other community, which followed
\* it in the cycle, was swept in the same cycle.
C18_Witness ==
  /\ loop.running /\ loop.pc = "sleep"
  /\ loop.order = <<Home, Other>>
  /\ loop.failed = {Home} /\ loop.swept = Guilds
  /\ Stale # {}

C20_StopAllOrNothing ==
  [][(loop.running /\ ~loop'.running) =>
       /\ msgs' # msgs =>
            /\ stats'.updated = stats.updated + 1
            /\ Len(audit') = Len(audit) + 1
            /\ audit'[Len(audit')].action \in SyncActions
       /\ loop'.pc = "done" /\ sweep'.pc = "idle"]_vars

\* The answers of a click that failed before its commit.
EarlyFailures ==
  {"crashed", "no_user_info", "permission_error", "not_found", "error_commit"}

\* A click was handled and returned without a handler left in flight.
ClickFailedEarly == nclicks' = nclicks + 1 /\ Len(clicks') <= Len(clicks)

\* C21: a click that fails before its store commit (no member record, a
\* failed read or commit) leaves no partial state: every member's status and
\* completed_at are as before, the audit log has no entry for it, no side
\* effect is attempted (no handler goes on) and no message is edited; a
\* missing member record is answered with not found.
C21_NoPartialState ==
  [][ClickFailedEarly =>
       /\ members' = members /\ audit' = audit /\ msgs' = msgs
       /\ clicks' = clicks
       /\ reply'.text \in EarlyFailures
       /\ (HoldsApproverRole(reply'.to) /\ ~members[ResolveTarget(reply'.msg)].exists)
            => reply'.text = "not_found"
       /\ reply'.text = "not_found" => ~members[ResolveTarget(reply'.msg)].exists]_vars

\* An approver clicked on the request of a member whose row was removed.
C21_Witness ==
  /\ reply.text = "not_found"
  /\ Removals # {}
  /\ msgs[reply.msg].title = TitleRequest
  /\ ~members[msgs[reply.msg].uid].exists

\* The template with every placeholder of a field replaced by the value
\* typed into that field, read from left to right.
RECURSIVE Substituted(_, _, _)
Substituted(template, names, values) ==
  IF template = <<>> THEN <<>>
  ELSE LET hits == {k \in 1..Len(names) :
                      /\ Len(Placeholder(names[k])) <= Len(template)
                      /\ SubSeq(template, 1, Len(Placeholder(names[k])))
                           = Placeholder(names[k])}
       IN IF hits = {}
          THEN <<Head(template)>> \o Substituted(Tail(template), names, values)
          ELSE LET k == CHOOSE h \in hits : TRUE
               IN values[k] \o
                  Substituted(SubSeq(template, Len(Placeholder(names[k])) + 1,
                                     Len(template)), names, values)

\* C22: with a template configured, the stored nickname is the template with
\* every {field_name} placeholder replaced by the value submitted for that
\* field, cut to 32 characters ("Ada Lovelace" for "{first_name} {last_name}",
\* Ada and Lovelace), and the approval sets that stored nickname as the
\* display name.
C22_NicknameFromTemplate ==
  (nickform.pc \in {"stored", "approved"} /\ nickform.template # <<>>) =>
    /\ nickform.nickname =
         Truncate(Substituted(nickform.template, nickform.names, nickform.values))
    /\ nickform.display \in {<<>>, nickform.nickname}

\* The form has no template and its first_name and last_name are not both
\* filled in.
FallsBack ==
  /\ nickform.pc \in {"stored", "approved"}
  /\ nickform.template = <<>>
  /\ \/ FieldValue(nickform.names, nickform.values, FirstName) = <<>>
     \/ FieldValue(nickform.names, nickform.values, LastName) = <<>>

\* C23: without a template and without both first_name and last_name, the
\* nickname is the value of the first field of the form cut to 32
\* characters, and no stored nickname is longer than 32 characters.
C23_FallbackWithinLimit ==
  /\ Len(nickform.nickname) <= NickLimit
  /\ FallsBack =>
       /\ Len(nickform.nickname) =
            IF Len(nickform.values[1]) > NickLimit
            THEN NickLimit ELSE Len(nickform.values[1])
       /\ \A k \in 1..Len(nickform.nickname) :
            nickform.nickname[k] = nickform.values[1][k]

C23_Witness ==
  /\ FallsBack
  /\ Len(nickform.values[1]) > NickLimit
  /\ Len(nickform.nickname) = NickLimit
  /\ nickform.display = nickform.nickname

\* C24: a message that shows a terminal title has no enabled control (the
\* click's rewrite disabled them, the sweep's rewrite removed them), and a
\* message that shows the request title still has its enabled controls.
C24_ControlsFollowTitle ==
  \A i \in 1..Len(msgs) :
    /\ msgs[i].title \in {TitleApproved, TitleDenied} => msgs[i].controls \in {"disabled", "none"}
    /\ msgs[i].title = TitleRequest => msgs[i].controls = "enabled"

C24_Witness ==
  \E i, j \in 1..Len(msgs) :
    /\ msgs[i].title \in {TitleApproved, TitleDenied} /\ msgs[i].controls = "disabled"
    /\ msgs[j].title \in {TitleApproved, TitleDenied} /\ msgs[j].controls = "none"

\* The number of fields called `name` on message i.
FieldCount(i, name) ==
  Cardinality({f \in 1..Len(msgs[i].by) : msgs[i].by[f].name = name})

\* C25: whatever rewrites the clicks and the sweeps make, a message keeps its
\* one 'User ID' field with the value it was posted with, and has at most one
\* 'Approved By' and at most one 'Denied By' field.
C25_FieldsKept ==
  /\ [](\A i \in 1..Len(msgs) :
          /\ msgs[i].field = "ok"
          /\ FieldCount(i, "Approved By") <= 1
          /\ FieldCount(i, "Denied By") <= 1)
  /\ [][\A i \in 1..Len(msgs) : msgs'[i].uid = msgs[i].uid]_vars

C25_Witness ==
  \E i, j \in 1..Len(msgs) :
    /\ FieldCount(i, "Approved By") = 1 /\ msgs[i].controls = "disabled"
    /\ FieldCount(j, "Denied By") = 1 /\ msgs[j].controls = "none"
    /\ msgs[i].field = "ok" /\ msgs[j].field = "ok"

\* C26: a row's completion time becomes non-null only in a commit that also
\* sets its status to approved (the Approve click, the submission in auto
\* mode, complete_onboarding); the Deny click and the submission in manual
\* mode never set it.
C26_CompletedOnlyWithApproval ==
  [][\A m \in Members :
       (members'[m].completed /\ ~members[m].completed) => members'[m].status = 1]_vars

C26_Witness ==
  \E m \in Members :
    /\ Logged("onboarding_denied") # {}
    /\ Logged("onboarding_modal_completed") # {}
    /\ Logged("onboarding_completed") # {}
    /\ members[m].completed /\ members[m].status = 1

\* A step that writes a row without logging it: the join and reinit.
JoinStep == audit' = audit /\ members' # members

\* C27: whatever the interleaving of joins, form submissions and reinit
\* commands, the store holds at most one row per member and community, and
\* the join and reinit leave an existing row, its status included, as it is.
C27_OneRowPerMember ==
  /\ [](\A m \in Members :
          members[m].rows <= 1 /\ (members[m].exists <=> members[m].rows = 1))
  /\ [][JoinStep => \A m \in Members :
                      members[m].exists => members'[m] = members[m]]_vars

C27_Witness ==
  \E m \in Members :
    /\ members[m].rows = 1 /\ members[m].status = 0
    /\ Logged("onboarding_modal_completed") # {}
    /\ audit # <<>>
    /\ audit[Len(audit)].action = "member_removed"
    /\ audit[Len(audit)].user = m

\* C28: the timer's pass sweeps a community only if it is active and has
\* sync_enabled true; the messages of a community without the setting, or
\* with it false, are neither read nor edited by the timer's pass, and when no
\* community has sync enabled the loop sweeps nothing.
C28_SweepIsOptIn ==
  /\ \A g \in loop.swept : guilds[g].active /\ guilds[g].sync_enabled = "on"
  /\ ~(guilds[Home].active /\ guilds[Home].sync_enabled = "on") =>
       /\ sweep = IdleSweep /\ sweeps = 0 /\ stats.checked = 0
       /\ \A i \in 1..Len(msgs) : msgs[i] = RequestMessage(msgs[i].uid)
  /\ (\A g \in Guilds : ~guilds[g].active \/ guilds[g].sync_enabled # "on") =>
       loop.swept = {} /\ loop.pc \notin {"guilds", "sweep"}

C28_Witness ==
  /\ guilds[Home].active /\ guilds[Home].sync_enabled = "unset"
  /\ guilds[Other].active /\ guilds[Other].sync_enabled = "on"
  /\ loop.pc = "sleep" /\ loop.swept = {Other} /\ loop.cycles = MaxCycles
  /\ \E i \in 1..Len(msgs) : members[msgs[i].uid].status = 1

\* C29: with two communities that have sync enabled and different
\* intervals, each is swept at its own interval: the sleep that follows a
\* sweep of a community lasts that community's sync_interval_minutes.
C29_OwnInterval ==
  \A g \in loop.swept : loop.pc = "sleep" => loop.delay = guilds[g].interval

\* Message i is the bot's, lies inside the lookback window, has an embed and
\* shows the request title.
Selectable(i) ==
  /\ msgs[i].bot /\ msgs[i].recent /\ msgs[i].embeds
  /\ Contains(msgs[i].title, <<"Onboarding", "Approval", "Request">>)

\* The sweep rewrites message i in this step: its embed changes and its
\* buttons are taken off.
SweepRewrites(i) ==
  /\ msgs'[i].controls = SweptView
  /\ \/ msgs'[i].title # msgs[i].title
     \/ msgs'[i].by # msgs[i].by
     \/ msgs'[i].controls # msgs[i].controls

\* C30: the sweep collects and counts in messages_checked only messages that
\* the bot wrote, that lie inside the lookback window, have an embed and show
\* the request title, and it edits only such messages: a message of another
\* author, or one that already shows a decision, is never edited.
C30_OnlyCandidates ==
  /\ [][sweeps' = sweeps + 1 =>
          /\ \A k \in 1..Len(sweep'.queue) : Selectable(sweep'.queue[k].id)
          /\ stats'.checked - stats.checked
               <= Cardinality({i \in 1..Len(msgs) : Selectable(i)})]_vars
  /\ [][\A i \in 1..Len(msgs) : SweepRewrites(i) => Selectable(i)]_vars

\* The list that save_onboarding_fields stored last is the stored one: no
\* other handler has written the settings since.
SavedLast ==
  audit # <<>> /\ audit[Len(audit)].action = "onboarding_fields_updated"

\* C31: a list stored by save_onboarding_fields has at most 5 entries, each
\* with a name and a label; a request with more than 5 fields or with an
\* entry that lacks its name or label is refused and leaves the settings and
\* the log as they were; the form has one input for every entry of the
\* stored list, however long it is.
C31_CapAtSaveOnly ==
  /\ [](SavedLast =>
          /\ guilds[Home].fields.set
          /\ Len(guilds[Home].fields.list) <= 5
          /\ \A k \in 1..Len(guilds[Home].fields.list) :
               /\ guilds[Home].fields.list[k].name # <<>>
               /\ guilds[Home].fields.list[k].label # "")
  /\ [][reply'.text \in {"too_many_fields", "field_incomplete"} =>
          guilds' = guilds /\ audit' = audit]_vars
  /\ [][nickform' # nickform /\ nickform'.pc = "rendered"
          /\ guilds[Home].fields.set =>
          nickform'.names = [k \in 1..Len(guilds[Home].fields.list) |->
                              guilds[Home].fields.list[k].name]]_vars

C31_Witness ==
  /\ SavedLast
  /\ Len(guilds[Home].fields.list) = 5
  /\ reply.text = "too_many_fields"
  /\ Logged("setting_updated") # {}
  /\ nickform.pc = "rendered" /\ Len(nickform.names) = 6

\* C32: a click that commits a decision decides the member whose id is in the
\* "User ID" field of the clicked message, and only that member's row
\* changes.
C32_DecidesClickedMember ==
  [][Len(clicks') = Len(clicks) + 1 =>
       LET click == clicks'[Len(clicks')]
       IN /\ click.target = msgs[click.msg].uid
          /\ \A m \in Members \ {msgs[click.msg].uid} : members'[m] = members[m]]_vars

\* C33: with prevent_reonboarding enabled, a form submission by a member
\* whose stored status is approved leaves that status as it is.
C33_ApprovedStaysApproved ==
  [][\A m \in Members :
       members[m].exists /\ members[m].status > 0
       /\ submits' = submits + 1 /\ subs'[m] # subs[m]
       => members'[m].status = members[m].status]_vars

\* C34: under manual mode a member's stored status becomes approved only by
\* an Approve click of an actor who holds an approver role.
C34_ApprovedOnlyByApprover ==
  [][\A m \in Members :
       ~(members[m].exists /\ members[m].status > 0)
       /\ members'[m].exists /\ members'[m].status > 0
       => /\ Len(audit') = Len(audit) + 1
          /\ audit'[Len(audit')].action = "onboarding_approved"
          /\ audit'[Len(audit')].uid = IntVal(m)
          /\ HoldsApproverRole(audit'[Len(audit')].user)]_vars

\* The button can be pressed: no form of m is open and m may submit again.
CanPress(m) == ~form[m] /\ submits < MaxSubmits

\* The stored status of m is approved.
IsApproved(m) == members[m].exists /\ members[m].status > 0

\* The form opens for m, when m presses the button, exactly when m is not
\* approved or prevent_reonboarding is off.
OpensUnlessApproved ==
  \A m \in Applicants : CanPress(m) =>
    /\ (ENABLED OnboardButton(m, DefaultSettings)) <=> ~IsApproved(m)
    /\ ENABLED OnboardButton(m, [DefaultSettings EXCEPT !.prevent_reonboarding = FALSE])

\* A submission under manual mode stores the status pending and leaves the
\* posted messages as they are.
ManualSubmitIsPending ==
  \A m \in Members :
    submits' = submits + 1 /\ subs'[m] # subs[m] /\ subs'[m].cfg.mode = "manual"
    => members'[m].status = 0 /\ msgs' = msgs

Checked ==
  /\ nclicks' = nclicks + 1
  /\ Len(clicks') = Len(clicks) => reply'.text \notin {"crashed", "no_user_info"}

\* The actor of the click of this step.
Clicker == IF Len(clicks') > Len(clicks) THEN clicks'[Len(clicks')].actor ELSE reply'.to

\* C36: a click is let through the permission check exactly when its actor
\* holds a role registered as onboarding_approver in the guild of the
\* clicked request; with no such role registered every click is refused.
C36_FailsClosed ==
  [][Checked =>
       /\ (Len(clicks') = Len(clicks) /\ reply'.text = "permission_error")
            <=> ~HoldsApproverRole(Clicker)
       /\ approvers = {} =>
            Len(clicks') = Len(clicks) /\ reply'.text = "permission_error"]_vars

\* The decisions the audit log holds about member m.
DecisionsOn(m) == {k \in Decisions : audit[k].uid = IntVal(m)}

\* The status the last decision logged about m stands for; 0 when none is.
LoggedStatus(m) ==
  IF DecisionsOn(m) = {} THEN 0
  ELSE LET last == CHOOSE k \in DecisionsOn(m) : \A j \in DecisionsOn(m) : j <= k
       IN IF audit[last].action = "onboarding_approved" THEN 1 ELSE -1

\* C37: a click writes the status and its audit entry in one commit: every
\* step that changes the rows or the log adds one decision entry and writes
\* that decision's status into the row of the member the entry names, a
\* click that goes on to its side effects has added its entry, and in every
\* state each member's status is the one the last logged decision stands for.
C37_StatusWithAudit ==
  /\ [](\A m \in Members : members[m].exists => members[m].status = LoggedStatus(m))
  /\ [][/\ members' # members \/ audit' # audit \/ Len(clicks') > Len(clicks) =>
             \E m \in Members, a \in Actors :
               \/ /\ audit' = Append(audit,
                        AuditEntry("onboarding_approved", a, a, IntVal(m), UserName(a), 0))
                  /\ members' = [members EXCEPT ![m].status = 1, ![m].completed = TRUE]
               \/ /\ audit' = Append(audit,
                        AuditEntry("onboarding_denied", a, a, IntVal(m), UserName(a), 0))
                  /\ members' = [members EXCEPT ![m].status = -1]]_vars

\* C37 witness: a member is approved, with the entry, after a click whose
\* commit failed left the row and the log alone, and a restart has cancelled
\* the approving handler before its side effects.
C37_Witness ==
  \E m \in Members :
    /\ members[m].status = 1 /\ LoggedStatus(m) = 1
    /\ Cardinality(Decisions) = 1
    /\ reply.text = "error_commit"
    /\ nclicks = 2
    /\ restarts = 1 /\ clicks = <<>>
    /\ msgs[1].title = TitleRequest

\* The click has rewritten message i.
ClickEdited(i) == reply.text = "edited" /\ reply.msg = i

\* A sweep has rewritten message i and logged it.
SweepEdited(i) ==
  \E k \in 1..Len(audit) :
    audit[k].action \in {"sync_approved", "sync_denied"} /\ audit[k].msg = i

\* C38: when a sweep that looked at the message after the click's commit and
\* the click have both rewritten the message, in either order, the message
\* displays the terminal title of the stored status and has no enabled
\* controls; the click has tried its notification at most once, and no step
\* of the sweep changes a row or a click's handler.
C38_RaceConverges ==
  /\ [](\A i \in 1..Len(msgs) : ClickEdited(i) /\ SweepEdited(i) =>
          /\ members[msgs[i].uid].status \in {1, -1}
          /\ msgs[i].title = TerminalTitle(members[msgs[i].uid].status)
          /\ msgs[i].controls \in {"disabled", "none"})
  /\ [](\A c \in 1..Len(clicks) : Len(clicks[c].tried) <= 1)
  /\ [][sweep' # sweep \/ stats' # stats => members' = members /\ clicks' = clicks]_vars

\* C38 witness: the click's rewrite came first and the sweep's, made from
\* the message as it was fetched, came last: the message shows the approval
\* and has no buttons.
C38_Witness ==
  \E i \in 1..Len(msgs) :
    /\ ClickEdited(i) /\ SweepEdited(i)
    /\ msgs[i].controls = "none"
    /\ msgs[i].title = TitleApproved
    /\ members[msgs[i].uid].status = 1

\* C39: the counts a manual run returns are the numbers of messages that
\* run itself checked, rewrote and failed on, and it returns no more
\* rewritten messages than checked ones.
C39_OwnCounts ==
  manual.pc = "done" =>
    /\ manual.result = manual.own
    /\ manual.result.updated <= manual.result.checked

====
